---- MODULE Spec2Model ----
(***************************************************************************)
(* A model of the structural storage engine behind EntityRef / EntityMut   *)
(* (crates/bevy_ecs/src/world/entity_ref.rs): the entity directory, the    *)
(* archetypes with their remove-edge cache, the tables, the sparse sets    *)
(* and the pending-removal ledger, together with the operations spawn,     *)
(* insert, insert_bundle_by_ids, remove, remove_intersection and despawn.  *)
(*                                                                         *)
(* Rows and ids are 1-based here (0-based in the source); 0 stands for     *)
(* "none" (Option::None, ArchetypeId::INVALID).                            *)
(***************************************************************************)
EXTENDS Integers, Sequences, FiniteSets, TLC

(***************************************************************************)
(* Bounds of the model.                                                    *)
(***************************************************************************)
MaxEntities == 2
MaxGeneration == 1
MaxValue == 2
MaxOps == 4

(***************************************************************************)
(* The component registry: ids 1 and 2 are table-backed, id 3 is           *)
(* sparse-backed; every other id is unknown to the registry.               *)
(***************************************************************************)
TableComponentIds == {1, 2}
SparseComponentIds == {3}
ComponentIds == TableComponentIds \cup SparseComponentIds
UnknownComponentIds == {4}

\* Components::get_info(id).is_some()
get_info(component_id) == component_id \in ComponentIds

\* ComponentInfo::storage_type
storage_type(component_id) ==
    IF component_id \in TableComponentIds THEN "Table" ELSE "SparseSet"

(***************************************************************************)
(* The bundle types of the program: BundleInfo.component_ids per bundle id.*)
(***************************************************************************)
BundleTypes == << <<>>, <<1>>, <<1, 3>>, <<1, 2>> >>
BundleIds == 1..Len(BundleTypes)

Range(s) == {s[i] : i \in 1..Len(s)}
BundleSet(b) == Range(BundleTypes[b])

Values == 1..MaxValue
\* the values entities are spawned with; insert gives any of Values
SpawnValues == {v \in Values : \A w \in Values : v <= w}

(***************************************************************************)
(* Entities, locations, cells.                                             *)
(***************************************************************************)
NoEntity == [index |-> 0, generation |-> 0]
NoLocation == [archetype_id |-> 0, archetype_row |-> 0, table_id |-> 0, table_row |-> 0]
EntityIds == [index : 1..MaxEntities, generation : 0..MaxGeneration]

Cell(v, t) == [value |-> v, added |-> t, changed |-> t]
Uninit == [value |-> 0, added |-> 0, changed |-> 0]

\* a map written out key by key: the stores hold their maps in this form
RECURSIVE ExplicitOn(_, _)
ExplicitOn(f, keys) ==
    IF keys = {} THEN << >>
    ELSE LET k == CHOOSE k \in keys : TRUE
         IN (k :> f[k]) @@ ExplicitOn(f, keys \ {k})

Explicit(f) == ExplicitOn(f, DOMAIN f)

\* Vec::swap_remove: the last element takes the place of element i.
SwapRemove(s, i) ==
    IF i \in 1..(Len(s) - 1)
    THEN SubSeq(s, 1, i - 1) \o <<s[Len(s)]>> \o SubSeq(s, i + 1, Len(s) - 1)
    ELSE SubSeq(s, 1, Len(s) - 1)

\* the ascending sequence of the elements of a set of integers
RECURSIVE SortedSeq(_)
SortedSeq(S) ==
    IF S = {} THEN <<>>
    ELSE LET m == CHOOSE x \in S : \A y \in S : x <= y
         IN <<m>> \o SortedSeq(S \ {m})

\* slice::sort on a list of ids: insertion sort into an ascending sequence
RECURSIVE InsertSorted(_, _)
InsertSorted(x, s) ==
    IF s = <<>> THEN <<x>>
    ELSE IF x <= Head(s) THEN <<x>> \o s
    ELSE <<Head(s)>> \o InsertSorted(x, Tail(s))

RECURSIVE SortIds(_)
SortIds(s) ==
    IF s = <<>> THEN <<>> ELSE InsertSorted(Head(s), SortIds(Tail(s)))

(***************************************************************************)
(* sorted_remove: retain the elements of source for which the closure      *)
(* returns true; remove_index only ever advances.                          *)
(***************************************************************************)
\* a variant whose cursor into remove advances by one step at most
AdvanceIndexOnce(value, remove, remove_index) ==
    IF remove_index <= Len(remove) /\ value > remove[remove_index]
    THEN remove_index + 1
    ELSE remove_index

RECURSIVE AdvanceIndex(_, _, _)
AdvanceIndex(value, remove, remove_index) ==
    IF remove_index <= Len(remove) /\ value > remove[remove_index]
    THEN AdvanceIndex(value, remove, remove_index + 1)
    ELSE remove_index

RECURSIVE SortedRemoveFrom(_, _, _)
SortedRemoveFrom(source, remove, remove_index) ==
    IF source = <<>> THEN <<>>
    ELSE LET value == Head(source)
             idx == AdvanceIndex(value, remove, remove_index)
             keep == IF idx <= Len(remove) THEN value # remove[idx] ELSE TRUE
         IN (IF keep THEN <<value>> ELSE <<>>) \o SortedRemoveFrom(Tail(source), remove, idx)

\* a variant whose cursor into remove never advances: only the first
\* element of remove is taken out of source
sorted_remove_first_only(source, remove) ==
    IF remove = <<>> THEN source ELSE SortedRemoveFrom(source, <<remove[1]>>, 1)

\* a variant that takes nothing out of source
sorted_remove_nothing(source, remove) == source

sorted_remove(source, remove) == SortedRemoveFrom(source, remove, 1)

(***************************************************************************)
(* The state of the World.                                                 *)
(*   entities            Entities: meta (generation, location) per index   *)
(*                       and the pending free list                         *)
(*   archetypes          Archetypes, each with its resident entities and   *)
(*                       its remove-bundle edges                           *)
(*   tables              Storages.tables                                   *)
(*   sparse_sets         Storages.sparse_sets, per sparse component a map  *)
(*                       from entity to cell                               *)
(*   removed_components  the pending-removal ledger                        *)
(*   change_tick         World.change_tick                                 *)
(*   handle              the EntityMut last used: its entity and its       *)
(*                       cached location                                   *)
(*   last                the last operation: its inputs and what it        *)
(*                       returned                                          *)
(*   pre                 the stores as they were when the last operation   *)
(*                       began                                             *)
(*   despawned           the identifiers despawned so far                  *)
(*   ops                 the number of operations performed so far         *)
(*   scope               the EntityMut whose world_scope is running, with  *)
(*                       the location it cached before the callback        *)
(*   bundles             the id lists registered as dynamic bundles        *)
(***************************************************************************)
VARIABLES entities, archetypes, tables, sparse_sets, removed_components,
          change_tick, handle, last, pre, despawned, ops, scope, bundles

vars == <<entities, archetypes, tables, sparse_sets, removed_components,
          change_tick, handle, last, pre, despawned, ops, scope, bundles>>

(***************************************************************************)
(* Entities: the entity directory.                                         *)
(***************************************************************************)
\* Entities::get: None (NoLocation) for an unknown index, a generation that
\* does not match, or a cleared location.
EntitiesGet(ents, entity) ==
    IF /\ entity.index \in 1..Len(ents.meta)
       /\ ents.meta[entity.index].generation = entity.generation
       /\ ents.meta[entity.index].location.archetype_id # 0
    THEN ents.meta[entity.index].location
    ELSE NoLocation

\* Entities::set
EntitiesSet(ents, index, location) ==
    [ents EXCEPT !.meta[index].location = location]

\* Entities::alloc: reuse the index freed last, else a fresh index.
EntitiesAlloc(ents) ==
    IF ents.pending # <<>>
    THEN LET index == ents.pending[Len(ents.pending)]
         IN [entities |-> [ents EXCEPT !.pending = SubSeq(@, 1, Len(@) - 1)],
             entity |-> [index |-> index, generation |-> ents.meta[index].generation]]
    ELSE [entities |-> [ents EXCEPT !.meta =
                            Append(@, [generation |-> 0, location |-> NoLocation])],
          entity |-> [index |-> Len(ents.meta) + 1, generation |-> 0]]

\* Entities::free: None (NoLocation, nothing changed) when the generation
\* does not match; else the generation is bumped, the location cleared and
\* the index pushed on the free list.
EntitiesFree(ents, entity) ==
    IF \/ entity.index \notin 1..Len(ents.meta)
       \/ ents.meta[entity.index].generation # entity.generation
    THEN [entities |-> ents, location |-> NoLocation]
    ELSE [entities |-> [meta |-> [ents.meta EXCEPT ![entity.index] =
                                     [generation |-> @.generation + 1,
                                      location |-> NoLocation]],
                        pending |-> Append(ents.pending, entity.index)],
          location |-> ents.meta[entity.index].location]

\* the identifiers that currently name a live entity
LiveEntities == {e \in EntityIds : EntitiesGet(entities, e) # NoLocation}

(***************************************************************************)
(* Archetype.                                                              *)
(***************************************************************************)
NotCached == -1

NoEdges == Explicit([b \in BundleIds |-> NotCached])

NewArchetype(table_id, table_components, sparse_set_components) ==
    [table_components |-> table_components,
     sparse_set_components |-> sparse_set_components,
     table_id |-> table_id,
     entities |-> <<>>,
     remove_bundle |-> NoEdges,
     remove_bundle_intersection |-> NoEdges]

\* Archetype::components
ArchetypeComponents(archetype) ==
    Range(archetype.table_components) \cup Range(archetype.sparse_set_components)

\* Archetype::contains
ArchetypeContains(archetype, component_id) ==
    component_id \in ArchetypeComponents(archetype)

\* Archetype::swap_remove
ArchetypeSwapRemove(archetype, row) ==
    [archetype |-> [archetype EXCEPT !.entities = SwapRemove(@, row)],
     swapped_entity |-> IF row = Len(archetype.entities) THEN NoEntity
                        ELSE archetype.entities[Len(archetype.entities)].entity,
     table_row |-> archetype.entities[row].table_row]

\* Archetype::allocate
ArchetypeAllocate(archetype, archetype_id, entity, table_row) ==
    [archetype |-> [archetype EXCEPT !.entities =
                       Append(@, [entity |-> entity, table_row |-> table_row])],
     location |-> [archetype_id |-> archetype_id,
                   archetype_row |-> Len(archetype.entities) + 1,
                   table_id |-> archetype.table_id,
                   table_row |-> table_row]]

\* a variant that leaves the resident list as it is
ArchetypeKeepEntityTableRow(archetype, row, table_row) == archetype

\* Archetype::set_entity_table_row
ArchetypeSetEntityTableRow(archetype, row, table_row) ==
    [archetype EXCEPT !.entities[row].table_row = table_row]

\* Archetypes::get_id_or_insert: the archetype of this component set, created
\* at the end of the list when there is none yet.
ArchetypesGetIdOrInsert(archs, table_id, table_components, sparse_set_components) ==
    LET same(i) == /\ archs[i].table_components = table_components
                   /\ archs[i].sparse_set_components = sparse_set_components
    IN IF \E i \in 1..Len(archs) : same(i)
       THEN [archetypes |-> archs, id |-> CHOOSE i \in 1..Len(archs) : same(i)]
       ELSE [archetypes |-> Append(archs,
                 NewArchetype(table_id, table_components, sparse_set_components)),
             id |-> Len(archs) + 1]

(***************************************************************************)
(* Table: the entity of each row and one column of cells per component.    *)
(***************************************************************************)
NewTable(component_ids) ==
    [entities |-> <<>>, columns |-> Explicit([c \in Range(component_ids) |-> <<>>])]

\* Tables::get_id_or_insert
TablesGetIdOrInsert(tbls, component_ids) ==
    LET same(i) == DOMAIN tbls[i].columns = Range(component_ids)
    IN IF \E i \in 1..Len(tbls) : same(i)
       THEN [tables |-> tbls, id |-> CHOOSE i \in 1..Len(tbls) : same(i)]
       ELSE [tables |-> Append(tbls, NewTable(component_ids)), id |-> Len(tbls) + 1]

\* Table::allocate: a new last row for the entity, its cells not yet written.
TableAllocate(table, entity) ==
    [table |-> [entities |-> Append(table.entities, entity),
                columns |-> Explicit([c \in DOMAIN table.columns |->
                                         Append(table.columns[c], Uninit)])],
     row |-> Len(table.entities) + 1]

\* Table::swap_remove_unchecked: the cells of the row are dropped and the
\* last row takes its place.
TableSwapRemove(table, row) ==
    [table |-> [entities |-> SwapRemove(table.entities, row),
                columns |-> Explicit([c \in DOMAIN table.columns |->
                                         SwapRemove(table.columns[c], row)])],
     swapped_entity |-> IF row = Len(table.entities) THEN NoEntity
                        ELSE table.entities[Len(table.entities)]]

\* Table::move_to_and_drop_missing_unchecked,
\* Table::move_to_and_forget_missing_unchecked and
\* Table::move_to_superset_unchecked: the row leaves old_table by swap-remove
\* and becomes the last row of new_table; a cell whose column new_table lacks
\* is dropped or forgotten, a column old_table lacks is left to be written.
TableMoveTo(old_table, new_table, row) ==
    [old_table |-> [entities |-> SwapRemove(old_table.entities, row),
                    columns |-> Explicit([c \in DOMAIN old_table.columns |->
                                             SwapRemove(old_table.columns[c], row)])],
     new_table |-> [entities |-> Append(new_table.entities, old_table.entities[row]),
                    columns |-> Explicit([c \in DOMAIN new_table.columns |->
                                             Append(new_table.columns[c],
                                                    IF c \in DOMAIN old_table.columns
                                                    THEN old_table.columns[c][row]
                                                    ELSE Uninit)])],
     new_row |-> Len(new_table.entities) + 1,
     swapped_entity |-> IF row = Len(old_table.entities) THEN NoEntity
                        ELSE old_table.entities[Len(old_table.entities)]]

(***************************************************************************)
(* Reading a component (World::get_component).  A table-backed component   *)
(* is read from the column of location.table_id at location.table_row,     *)
(* unchecked: a row past the end of the column reads whatever the buffer   *)
(* holds there, which is any cell.  A sparse-backed component is looked up *)
(* by entity.  The result is the set of cells the read can yield; the      *)
(* empty set is None.                                                      *)
(***************************************************************************)
StaleCells == [value : Values, added : {change_tick}, changed : {change_tick}]

GetComponent(tbls, sparse, component_id, entity, location) ==
    IF storage_type(component_id) = "Table"
    THEN IF component_id \in DOMAIN tbls[location.table_id].columns
         THEN LET column == tbls[location.table_id].columns[component_id]
              IN IF location.table_row \in 1..Len(column)
                 THEN {column[location.table_row]}
                 ELSE StaleCells
         ELSE {}
    ELSE IF entity \in DOMAIN sparse[component_id]
         THEN {sparse[component_id][entity]}
         ELSE {}

\* SparseSet::insert on one sparse map
SparseInsert(map, entity, cell) ==
    Explicit([e \in DOMAIN map \cup {entity} |-> IF e = entity THEN cell ELSE map[e]])

\* ComponentSparseSet::remove / remove_and_forget on one sparse map
SparseRemove(map, entity) ==
    Explicit([e \in DOMAIN map \ {entity} |-> map[e]])

\* Vec::push on the ledger entry of one component
LedgerPush(removed, component_id, entity) ==
    [removed EXCEPT ![component_id] = Append(@, entity)]

(***************************************************************************)
(* BundleInfo::write_components: the i-th value goes under the i-th        *)
(* component id of the bundle.  A component the entity already had is      *)
(* replaced (changed tick stamped), a new one is initialised (added and    *)
(* changed ticks stamped).  The table write is unchecked: past the end of  *)
(* the column it lands outside the rows of the table.                      *)
(***************************************************************************)
WriteCell(old, value, tick) ==
    IF old = Uninit THEN Cell(value, tick)
    ELSE [old EXCEPT !.value = value, !.changed = tick]

RECURSIVE WriteComponents(_, _, _, _, _, _, _, _, _)
WriteComponents(tbls, sparse, component_ids, values, entity, table_id, table_row, tick, i) ==
    IF i > Len(component_ids) THEN [tables |-> tbls, sparse_sets |-> sparse]
    ELSE LET c == component_ids[i]
             v == values[i]
         IN IF storage_type(c) = "Table"
            THEN LET tbls1 == IF table_row \in 1..Len(tbls[table_id].entities)
                              THEN [tbls EXCEPT ![table_id].columns[c][table_row] =
                                        WriteCell(@, v, tick)]
                              ELSE tbls
                 IN WriteComponents(tbls1, sparse, component_ids, values, entity,
                                    table_id, table_row, tick, i + 1)
            ELSE LET old == IF entity \in DOMAIN sparse[c] THEN sparse[c][entity] ELSE Uninit
                     sparse1 == [sparse EXCEPT ![c] =
                                    SparseInsert(@, entity, WriteCell(old, v, tick))]
                 IN WriteComponents(tbls, sparse1, component_ids, values, entity,
                                    table_id, table_row, tick, i + 1)

(***************************************************************************)
(* BundleInfo::get_bundle_inserter and BundleInserter::insert.             *)
(* The destination archetype is the one of the union of the component      *)
(* sets; it reuses the table when no table-backed component is added.      *)
(* The entity leaves its archetype row (and its table row when the table   *)
(* changes) by swap-remove; the entities swapped into the vacated rows get *)
(* their location records fixed; the bundle is written into the new row.   *)
(***************************************************************************)
IsTable(c) == storage_type(c) = "Table"
IsSparse(c) == storage_type(c) = "SparseSet"

BundleInserterInsert(ents, archs, tbls, sparse, entity, location, component_ids, values, tick) ==
    LET old_archetype == archs[location.archetype_id]
        added == {c \in Range(component_ids) : ~ArchetypeContains(old_archetype, c)}
    IN IF added = {}
       THEN \* InsertBundleResult::SameArchetype
            LET w == WriteComponents(tbls, sparse, component_ids, values, entity,
                                     location.table_id, location.table_row, tick, 1)
            IN [entities |-> ents, archetypes |-> archs, tables |-> w.tables,
                sparse_sets |-> w.sparse_sets, location |-> location]
       ELSE LET table_components ==
                    SortedSeq(Range(old_archetype.table_components)
                              \cup {c \in added : IsTable(c)})
                sparse_set_components ==
                    SortedSeq(Range(old_archetype.sparse_set_components)
                              \cup {c \in added : IsSparse(c)})
                t == IF {c \in added : IsTable(c)} = {}
                     THEN [tables |-> tbls, id |-> old_archetype.table_id]
                     ELSE TablesGetIdOrInsert(tbls, table_components)
                a == ArchetypesGetIdOrInsert(archs, t.id, table_components,
                                             sparse_set_components)
                result == ArchetypeSwapRemove(a.archetypes[location.archetype_id],
                                              location.archetype_row)
                archs1 == [a.archetypes EXCEPT ![location.archetype_id] = result.archetype]
                ents1 == IF result.swapped_entity # NoEntity
                         THEN EntitiesSet(ents, result.swapped_entity.index,
                                  [EntitiesGet(ents, result.swapped_entity)
                                      EXCEPT !.archetype_row = location.archetype_row])
                         ELSE ents
            IN IF t.id = old_archetype.table_id
               THEN \* InsertBundleResult::NewArchetypeSameTable
                    LET alloc == ArchetypeAllocate(archs1[a.id], a.id, entity,
                                                   result.table_row)
                        w == WriteComponents(t.tables, sparse, component_ids, values,
                                 entity, t.id, result.table_row, tick, 1)
                    IN [entities |-> EntitiesSet(ents1, entity.index, alloc.location),
                        archetypes |-> [archs1 EXCEPT ![a.id] = alloc.archetype],
                        tables |-> w.tables, sparse_sets |-> w.sparse_sets,
                        location |-> alloc.location]
               ELSE \* InsertBundleResult::NewArchetypeNewTable
                    LET move_result == TableMoveTo(t.tables[old_archetype.table_id],
                                                   t.tables[t.id], result.table_row)
                        tbls1 == [t.tables EXCEPT
                                     ![old_archetype.table_id] = move_result.old_table,
                                     ![t.id] = move_result.new_table]
                        alloc == ArchetypeAllocate(archs1[a.id], a.id, entity,
                                                   move_result.new_row)
                        archs2 == [archs1 EXCEPT ![a.id] = alloc.archetype]
                        ents2 == EntitiesSet(ents1, entity.index, alloc.location)
                        swapped_location == EntitiesGet(ents2, move_result.swapped_entity)
                        ents3 == IF move_result.swapped_entity # NoEntity
                                 THEN EntitiesSet(ents2, move_result.swapped_entity.index,
                                          [swapped_location EXCEPT
                                              !.table_row = result.table_row])
                                 ELSE ents2
                        archs3 == IF move_result.swapped_entity # NoEntity
                                  THEN [archs2 EXCEPT ![swapped_location.archetype_id] =
                                           ArchetypeSetEntityTableRow(@,
                                               swapped_location.archetype_row,
                                               result.table_row)]
                                  ELSE archs2
                        w == WriteComponents(tbls1, sparse, component_ids, values,
                                 entity, t.id, move_result.new_row, tick, 1)
                    IN [entities |-> ents3, archetypes |-> archs3,
                        tables |-> w.tables, sparse_sets |-> w.sparse_sets,
                        location |-> alloc.location]

(***************************************************************************)
(* remove_bundle_from_archetype.                                           *)
(* An edge holds NotCached, 0 (a cached None: the removal is invalid) or   *)
(* the id of the destination archetype.                                    *)
(***************************************************************************)
\* a variant with one slot per bundle: both modes read the strict edge
GetRemoveEdgeStrictSlot(archetype, bundle_id, intersection) ==
    archetype.remove_bundle[bundle_id]

\* Edges::get_remove_bundle_intersection / Edges::get_remove_bundle,
\* chosen by the mode
GetRemoveEdge(archetype, bundle_id, intersection) ==
    IF intersection
    THEN archetype.remove_bundle_intersection[bundle_id]
    ELSE archetype.remove_bundle[bundle_id]

\* a variant that caches nothing
InsertRemoveEdgeNowhere(archetype, bundle_id, intersection, result) == archetype

\* a variant that writes the result into the slots of both modes
InsertRemoveEdgeBothSlots(archetype, bundle_id, intersection, result) ==
    [archetype EXCEPT !.remove_bundle_intersection[bundle_id] = result,
                      !.remove_bundle[bundle_id] = result]

\* Edges::insert_remove_bundle_intersection / Edges::insert_remove_bundle,
\* chosen by the mode
InsertRemoveEdge(archetype, bundle_id, intersection, result) ==
    IF intersection
    THEN [archetype EXCEPT !.remove_bundle_intersection[bundle_id] = result]
    ELSE [archetype EXCEPT !.remove_bundle[bundle_id] = result]

\* the elements of a list of ids that satisfy a test, in order
RECURSIVE FilterIds(_, _, _)
FilterIds(ids, keep, i) ==
    IF i > Len(ids) THEN <<>>
    ELSE (IF ids[i] \in keep THEN <<ids[i]>> ELSE <<>>) \o FilterIds(ids, keep, i + 1)

\* a variant that rejects a bundle with a missing component in both modes
InvalidRemovalAnyMode(archetype, component_ids, intersection) ==
    \E i \in 1..Len(component_ids) : ~ArchetypeContains(archetype, component_ids[i])

\* the loop over the components of the bundle ends early, with None: some
\* component is not in the archetype and the mode is not intersection
InvalidRemoval(archetype, component_ids, intersection) ==
    \E i \in 1..Len(component_ids) :
        ~ArchetypeContains(archetype, component_ids[i]) /\ ~intersection

\* a variant that rejects only after it has made the table of the components
\* that would remain
CacheInvalidAfterTable(archs, tbls, archetype_id, bundle_id) ==
    [archetypes |-> [archs EXCEPT ![archetype_id].remove_bundle[bundle_id] = 0],
     tables |-> TablesGetIdOrInsert(tbls,
                    SelectSeq(archs[archetype_id].table_components,
                              LAMBDA c : c \notin Range(BundleTypes[bundle_id]))).tables,
     result |-> 0,
     computed |-> TRUE]

\* the early return of the loop: None is cached in the strict edge and
\* returned, and nothing else has been touched
CacheInvalid(archs, tbls, archetype_id, bundle_id) ==
    [archetypes |-> [archs EXCEPT ![archetype_id].remove_bundle[bundle_id] = 0],
     tables |-> tbls,
     result |-> 0,
     computed |-> TRUE]

\* a variant that makes a table for every destination
NextTableAlwaysNew(tbls, current_archetype, removed_table_components, next_table_components) ==
    [tables |-> Append(tbls, NewTable(next_table_components)), id |-> Len(tbls) + 1]

\* next_table_id: the table of the current archetype when no table-backed
\* component is removed, else the table of the components that remain
NextTable(tbls, current_archetype, removed_table_components, next_table_components) ==
    IF removed_table_components = <<>>
    THEN [tables |-> tbls, id |-> current_archetype.table_id]
    ELSE TablesGetIdOrInsert(tbls, next_table_components)

\* result is the archetype id, 0 for None; computed tells whether the edge
\* was not cached and the result had to be worked out
remove_bundle_from_archetype(archs, tbls, archetype_id, bundle_id, intersection) ==
    LET current_archetype == archs[archetype_id]
        remove_bundle_result == GetRemoveEdge(current_archetype, bundle_id, intersection)
        component_ids == BundleTypes[bundle_id]
        present == {c \in Range(component_ids) : ArchetypeContains(current_archetype, c)}
    IN IF remove_bundle_result # NotCached
       THEN \* the result is cached: return it, writing it back to the edge
            [archetypes |-> [archs EXCEPT ![archetype_id] =
                                InsertRemoveEdge(@, bundle_id, intersection,
                                                 remove_bundle_result)],
             tables |-> tbls,
             result |-> remove_bundle_result,
             computed |-> FALSE]
       ELSE IF InvalidRemoval(current_archetype, component_ids, intersection)
       THEN \* a component of the bundle is missing: cache None and return None
            CacheInvalid(archs, tbls, archetype_id, bundle_id)
       ELSE LET removed_table_components ==
                    SortIds(FilterIds(component_ids,
                                      {c \in present : IsTable(c)}, 1))
                removed_sparse_set_components ==
                    SortIds(FilterIds(component_ids,
                                      {c \in present : IsSparse(c)}, 1))
                next_table_components ==
                    sorted_remove(current_archetype.table_components,
                                  removed_table_components)
                next_sparse_set_components ==
                    sorted_remove(current_archetype.sparse_set_components,
                                  removed_sparse_set_components)
                t == NextTable(tbls, current_archetype, removed_table_components,
                               next_table_components)
                a == ArchetypesGetIdOrInsert(archs, t.id, next_table_components,
                                             next_sparse_set_components)
            IN [archetypes |-> [a.archetypes EXCEPT ![archetype_id] =
                                   InsertRemoveEdge(@, bundle_id, intersection, a.id)],
                tables |-> t.tables,
                result |-> a.id,
                computed |-> TRUE]

\* a variant of take_component that leaves the ledger alone
take_component_unrecorded(tbls, sparse, removed, component_id, entity, location) ==
    [removed_components |-> removed,
     sparse_sets |-> IF IsTable(component_id) THEN sparse
                     ELSE [sparse EXCEPT ![component_id] = SparseRemove(@, entity)],
     cells |-> GetComponent(tbls, sparse, component_id, entity, location)]

(***************************************************************************)
(* take_component: the removal is recorded in the ledger; a table-backed   *)
(* value is read in place at location.table_row (the cell stays where it   *)
(* is, the caller removes the row), a sparse-backed value is removed from  *)
(* its sparse map.  cells is the set of cells the read can yield.          *)
(***************************************************************************)
take_component(tbls, sparse, removed, component_id, entity, location) ==
    [removed_components |-> LedgerPush(removed, component_id, entity),
     sparse_sets |-> IF IsTable(component_id) THEN sparse
                     ELSE [sparse EXCEPT ![component_id] = SparseRemove(@, entity)],
     cells |-> GetComponent(tbls, sparse, component_id, entity, location)]

\* the loop of EntityMut::remove over the components of the bundle, from
\* the i-th on
RECURSIVE TakeComponents(_, _, _, _, _, _, _)
TakeComponents(tbls, sparse, removed, component_ids, entity, location, i) ==
    IF i > Len(component_ids)
    THEN [removed_components |-> removed, sparse_sets |-> sparse]
    ELSE LET r == take_component(tbls, sparse, removed, component_ids[i], entity, location)
         IN TakeComponents(tbls, r.sparse_sets, r.removed_components, component_ids,
                           entity, location, i + 1)

(***************************************************************************)
(* EntityMut::move_entity_from_remove.                                     *)
(***************************************************************************)
move_entity_from_remove(entity, old_archetype_id, old_location, ents, archs, tbls, new_archetype_id) ==
    LET remove_result == ArchetypeSwapRemove(archs[old_archetype_id],
                                             old_location.archetype_row)
        archs1 == [archs EXCEPT ![old_archetype_id] = remove_result.archetype]
        ents1 == IF remove_result.swapped_entity # NoEntity
                 THEN EntitiesSet(ents, remove_result.swapped_entity.index, old_location)
                 ELSE ents
        old_table_row == remove_result.table_row
        old_table_id == archs1[old_archetype_id].table_id
        new_table_id == archs1[new_archetype_id].table_id
    IN IF old_table_id = new_table_id
       THEN LET alloc == ArchetypeAllocate(archs1[new_archetype_id], new_archetype_id,
                                           entity, old_table_row)
            IN [entities |-> EntitiesSet(ents1, entity.index, alloc.location),
                archetypes |-> [archs1 EXCEPT ![new_archetype_id] = alloc.archetype],
                tables |-> tbls,
                location |-> alloc.location]
       ELSE LET move_result == TableMoveTo(tbls[old_table_id], tbls[new_table_id],
                                           old_table_row)
                tbls1 == [tbls EXCEPT ![old_table_id] = move_result.old_table,
                                      ![new_table_id] = move_result.new_table]
                alloc == ArchetypeAllocate(archs1[new_archetype_id], new_archetype_id,
                                           entity, move_result.new_row)
                archs2 == [archs1 EXCEPT ![new_archetype_id] = alloc.archetype]
                swapped_location == EntitiesGet(ents1, move_result.swapped_entity)
                archs3 == IF move_result.swapped_entity # NoEntity
                          THEN [archs2 EXCEPT ![swapped_location.archetype_id] =
                                   ArchetypeSetEntityTableRow(@,
                                       swapped_location.archetype_row, old_table_row)]
                          ELSE archs2
            IN [entities |-> EntitiesSet(ents1, entity.index, alloc.location),
                archetypes |-> archs3,
                tables |-> tbls1,
                location |-> alloc.location]

(***************************************************************************)
(* The handle and the record of the last operation.                        *)
(***************************************************************************)
EmptyMap == << >>

NoHandle == [entity |-> NoEntity, location |-> NoLocation]

\* op: the operation; entity: the entity it was called on (for spawn, the
\* entity it created); ids, values: the bundle given to it; some, ret: the
\* Option it returned and the values in it (by component id); panic: it
\* aborted; after: the operation before it, if that one was called on the
\* same entity with the same bundle; fresh: that operation was an insert of
\* a non-empty bundle none of whose components the entity had.
Last(op, entity, ids, values, some, ret, panic) ==
    [op |-> op, entity |-> entity, ids |-> ids, values |-> values, some |-> some,
     ret |-> ret, panic |-> panic,
     after |-> IF last.entity = entity /\ last.ids = ids THEN last.op ELSE "",
     fresh |-> /\ last.op = "insert" /\ last.entity = entity
               /\ last.ids = ids /\ ids # <<>>
               /\ \A i \in 1..Len(ids) :
                    ~ArchetypeContains(
                        pre.archetypes[EntitiesGet(pre.entities, entity).archetype_id],
                        ids[i])]

\* the stores, as a record
World ==
    [entities |-> entities, archetypes |-> archetypes, tables |-> tables,
     sparse_sets |-> sparse_sets, removed_components |-> removed_components,
     bundles |-> bundles]

\* every operation counts, a run has at most MaxOps operations, and each
\* operation leaves a record of the stores it started from; an operation
\* made inside a world_scope callback leaves the borrowed handle alone
CountOp == ops < MaxOps /\ ops' = ops + 1 /\ pre' = World /\ scope' = scope

\* World::entity_mut(entity): a new handle caches the directory's location;
\* the handle used last, if it is of this entity, may also be used again.
HandleLocations(entity) ==
    {EntitiesGet(entities, entity)}
    \cup (IF handle.entity = entity THEN {handle.location} ELSE {})

InitWorld ==
    /\ entities = [meta |-> <<>>, pending |-> <<>>]
    /\ archetypes = <<NewArchetype(1, <<>>, <<>>)>>
    /\ tables = <<NewTable(<<>>)>>
    /\ sparse_sets = Explicit([c \in SparseComponentIds |-> EmptyMap])
    /\ removed_components = Explicit([c \in ComponentIds |-> <<>>])
    /\ change_tick = 1
    /\ handle = NoHandle
    /\ ops = 0
    /\ scope = NoHandle
    /\ despawned = {}
    /\ bundles = {}
    /\ pre = World

Init ==
    /\ InitWorld
    /\ last = [op |-> "init", entity |-> NoEntity, ids |-> <<>>, values |-> <<>>,
               some |-> FALSE, ret |-> EmptyMap, panic |-> FALSE, after |-> "",
               fresh |-> FALSE]

(***************************************************************************)
(* World::spawn(bundle): a new entity is allocated in the empty archetype  *)
(* and the bundle is inserted into it; the empty bundle is spawn_empty.    *)
(***************************************************************************)
Spawn(bundle_id, values) ==
    /\ CountOp
    /\ entities.pending # <<>> \/ Len(entities.meta) < MaxEntities
    /\ LET alloc == EntitiesAlloc(entities)
           row == TableAllocate(tables[archetypes[1].table_id], alloc.entity)
           a == ArchetypeAllocate(archetypes[1], 1, alloc.entity, row.row)
           r == BundleInserterInsert(
                    EntitiesSet(alloc.entities, alloc.entity.index, a.location),
                    [archetypes EXCEPT ![1] = a.archetype],
                    [tables EXCEPT ![archetypes[1].table_id] = row.table],
                    sparse_sets, alloc.entity, a.location,
                    BundleTypes[bundle_id], values, change_tick)
       IN /\ entities' = r.entities
          /\ archetypes' = r.archetypes
          /\ tables' = r.tables
          /\ sparse_sets' = r.sparse_sets
          /\ handle' = [entity |-> alloc.entity, location |-> r.location]
          /\ last' = Last("spawn", alloc.entity, BundleTypes[bundle_id], values, FALSE,
                          EmptyMap, FALSE)
    /\ UNCHANGED <<removed_components, change_tick, despawned, bundles>>

(***************************************************************************)
(* EntityMut::insert                                                       *)
(***************************************************************************)
Insert(entity, bundle_id, values) ==
    /\ CountOp
    /\ entity \in LiveEntities
    /\ \E location \in HandleLocations(entity) :
         LET r == BundleInserterInsert(entities, archetypes, tables, sparse_sets,
                      entity, location, BundleTypes[bundle_id], values, change_tick)
         IN /\ entities' = r.entities
            /\ archetypes' = r.archetypes
            /\ tables' = r.tables
            /\ sparse_sets' = r.sparse_sets
            /\ handle' = [entity |-> entity, location |-> r.location]
            /\ last' = Last("insert", entity, BundleTypes[bundle_id], values, FALSE,
                            EmptyMap, FALSE)
    /\ UNCHANGED <<removed_components, change_tick, despawned, bundles>>

(***************************************************************************)
(* EntityMut::insert_bundle_by_ids: the ids are sorted, each must be known *)
(* to the registry (else the call panics), and the values are handed to    *)
(* the inserter in the order given.                                        *)
(***************************************************************************)
DynamicIdLists == {<<2, 1>>, <<4, 1>>}

\* Bundles::init_info_dynamic: the bundle of the id list is registered unless
\* it is already.  The bundles of BundleTypes are the statically typed ones,
\* known by their BundleId from the start; bundles holds the dynamic ones.
BundlesInitInfoDynamic(bndls, component_ids) == bndls \cup {component_ids}

\* a variant that registers the bundle before it looks the ids up
InsertBundleByIdsRegistersFirst(entity, component_ids, values) ==
    /\ CountOp
    /\ entity \in LiveEntities
    /\ \E location \in HandleLocations(entity) :
         LET sorted_ids == SortIds(component_ids)
         IN IF \E i \in 1..Len(sorted_ids) : ~get_info(sorted_ids[i])
            THEN /\ handle' = [entity |-> entity, location |-> location]
                 /\ last' = Last("insert_bundle_by_ids", entity, component_ids, values, FALSE,
                                 EmptyMap, TRUE)
                 /\ bundles' = BundlesInitInfoDynamic(bundles, sorted_ids)
                 /\ UNCHANGED <<entities, archetypes, tables, sparse_sets>>
            ELSE LET r == BundleInserterInsert(entities, archetypes, tables,
                              sparse_sets, entity, location, sorted_ids, values,
                              change_tick)
                 IN /\ entities' = r.entities
                    /\ archetypes' = r.archetypes
                    /\ tables' = r.tables
                    /\ sparse_sets' = r.sparse_sets
                    /\ bundles' = BundlesInitInfoDynamic(bundles, sorted_ids)
                    /\ handle' = [entity |-> entity, location |-> r.location]
                    /\ last' = Last("insert_bundle_by_ids", entity, component_ids, values,
                                    FALSE, EmptyMap, FALSE)
    /\ UNCHANGED <<removed_components, change_tick, despawned>>

InsertBundleByIds(entity, component_ids, values) ==
    /\ CountOp
    /\ entity \in LiveEntities
    /\ \E location \in HandleLocations(entity) :
         LET sorted_ids == SortIds(component_ids)
         IN IF \E i \in 1..Len(sorted_ids) : ~get_info(sorted_ids[i])
            THEN /\ handle' = [entity |-> entity, location |-> location]
                 /\ last' = Last("insert_bundle_by_ids", entity, component_ids, values, FALSE,
                                 EmptyMap, TRUE)
                 /\ UNCHANGED <<entities, archetypes, tables, sparse_sets, bundles>>
            ELSE LET r == BundleInserterInsert(entities, archetypes, tables,
                              sparse_sets, entity, location, sorted_ids, values,
                              change_tick)
                 IN /\ entities' = r.entities
                    /\ archetypes' = r.archetypes
                    /\ tables' = r.tables
                    /\ sparse_sets' = r.sparse_sets
                    /\ bundles' = BundlesInitInfoDynamic(bundles, sorted_ids)
                    /\ handle' = [entity |-> entity, location |-> r.location]
                    /\ last' = Last("insert_bundle_by_ids", entity, component_ids, values,
                                    FALSE, EmptyMap, FALSE)
    /\ UNCHANGED <<removed_components, change_tick, despawned>>

(***************************************************************************)
(* EntityMut::remove (strict)                                              *)
(***************************************************************************)
\* the bundles T::from_components can build from what take_component reads
TakenBundles(component_ids, entity, location) ==
    {ret \in [Range(component_ids) -> Values] :
        \A c \in Range(component_ids) :
            \E cell \in GetComponent(tables, sparse_sets, c, entity, location) :
                ret[c] = cell.value}

\* a variant that leaves the location cached in the handle as it was
RemoveKeepsCachedLocation(entity, bundle_id) ==
    /\ CountOp
    /\ entity \in LiveEntities
    /\ \E old_location \in HandleLocations(entity) :
         LET r == remove_bundle_from_archetype(archetypes, tables,
                      old_location.archetype_id, bundle_id, FALSE)
             new_archetype_id == r.result
         IN IF new_archetype_id = 0 \/ new_archetype_id = old_location.archetype_id
            THEN /\ archetypes' = r.archetypes
                 /\ tables' = r.tables
                 /\ handle' = [entity |-> entity, location |-> old_location]
                 /\ last' = Last("remove", entity, BundleTypes[bundle_id], <<>>, FALSE,
                                 EmptyMap, FALSE)
                 /\ UNCHANGED <<entities, sparse_sets, removed_components>>
            ELSE LET taken == TakeComponents(r.tables, sparse_sets, removed_components,
                                  BundleTypes[bundle_id], entity, old_location, 1)
                     m == move_entity_from_remove(entity, old_location.archetype_id,
                              old_location, entities, r.archetypes, r.tables,
                              new_archetype_id)
                 IN \E result \in TakenBundles(BundleTypes[bundle_id], entity, old_location) :
                      /\ entities' = m.entities
                      /\ archetypes' = m.archetypes
                      /\ tables' = m.tables
                      /\ sparse_sets' = taken.sparse_sets
                      /\ removed_components' = taken.removed_components
                      /\ handle' = [entity |-> entity, location |-> old_location]
                      /\ last' = Last("remove", entity, BundleTypes[bundle_id], <<>>,
                                      TRUE, result, FALSE)
    /\ UNCHANGED <<change_tick, despawned, bundles>>

Remove(entity, bundle_id) ==
    /\ CountOp
    /\ entity \in LiveEntities
    /\ \E old_location \in HandleLocations(entity) :
         LET r == remove_bundle_from_archetype(archetypes, tables,
                      old_location.archetype_id, bundle_id, FALSE)
             new_archetype_id == r.result
         IN IF new_archetype_id = 0 \/ new_archetype_id = old_location.archetype_id
            THEN /\ archetypes' = r.archetypes
                 /\ tables' = r.tables
                 /\ handle' = [entity |-> entity, location |-> old_location]
                 /\ last' = Last("remove", entity, BundleTypes[bundle_id], <<>>, FALSE,
                                 EmptyMap, FALSE)
                 /\ UNCHANGED <<entities, sparse_sets, removed_components>>
            ELSE LET taken == TakeComponents(r.tables, sparse_sets, removed_components,
                                  BundleTypes[bundle_id], entity, old_location, 1)
                     m == move_entity_from_remove(entity, old_location.archetype_id,
                              old_location, entities, r.archetypes, r.tables,
                              new_archetype_id)
                 IN \E result \in TakenBundles(BundleTypes[bundle_id], entity, old_location) :
                      /\ entities' = m.entities
                      /\ archetypes' = m.archetypes
                      /\ tables' = m.tables
                      /\ sparse_sets' = taken.sparse_sets
                      /\ removed_components' = taken.removed_components
                      /\ handle' = [entity |-> entity, location |-> m.location]
                      /\ last' = Last("remove", entity, BundleTypes[bundle_id], <<>>,
                                      TRUE, result, FALSE)
    /\ UNCHANGED <<change_tick, despawned, bundles>>

(***************************************************************************)
(* EntityMut::remove_intersection                                          *)
(***************************************************************************)
\* the loop over the components of the bundle: each one the old archetype
\* contains is recorded in the ledger and, if sparse-backed, removed from
\* its sparse map
\* a variant that drops the entity's entry from every sparse map, whether
\* or not the component is in the bundle
RECURSIVE DropComponentsEverySparse(_, _, _, _, _, _)
DropComponentsEverySparse(sparse, removed, old_archetype, component_ids, entity, i) ==
    IF i > Len(component_ids)
    THEN [removed_components |-> removed, sparse_sets |-> sparse]
    ELSE LET c == component_ids[i]
         IN IF ArchetypeContains(old_archetype, c)
            THEN DropComponentsEverySparse(
                     Explicit([d \in DOMAIN sparse |-> SparseRemove(sparse[d], entity)]),
                     LedgerPush(removed, c, entity),
                     old_archetype, component_ids, entity, i + 1)
            ELSE DropComponentsEverySparse(sparse, removed, old_archetype, component_ids,
                                           entity, i + 1)

RECURSIVE DropComponents(_, _, _, _, _, _)
DropComponents(sparse, removed, old_archetype, component_ids, entity, i) ==
    IF i > Len(component_ids)
    THEN [removed_components |-> removed, sparse_sets |-> sparse]
    ELSE LET c == component_ids[i]
         IN IF ArchetypeContains(old_archetype, c)
            THEN DropComponents(
                     IF c \in Range(old_archetype.sparse_set_components)
                     THEN [sparse EXCEPT ![c] = SparseRemove(@, entity)]
                     ELSE sparse,
                     LedgerPush(removed, c, entity),
                     old_archetype, component_ids, entity, i + 1)
            ELSE DropComponents(sparse, removed, old_archetype, component_ids,
                                entity, i + 1)

\* a variant without the early return for an unchanged archetype: the
\* entity is always moved
RemoveIntersectionAlwaysMoves(entity, bundle_id) ==
    /\ CountOp
    /\ entity \in LiveEntities
    /\ \E old_location \in HandleLocations(entity) :
         LET r == remove_bundle_from_archetype(archetypes, tables,
                      old_location.archetype_id, bundle_id, TRUE)
             dropped == DropComponents(sparse_sets, removed_components,
                            r.archetypes[old_location.archetype_id],
                            BundleTypes[bundle_id], entity, 1)
             m == move_entity_from_remove(entity, old_location.archetype_id,
                      old_location, entities, r.archetypes, r.tables, r.result)
         IN /\ r.result # 0
            /\ entities' = m.entities
            /\ archetypes' = m.archetypes
            /\ tables' = m.tables
            /\ sparse_sets' = dropped.sparse_sets
            /\ removed_components' = dropped.removed_components
            /\ handle' = [entity |-> entity, location |-> m.location]
            /\ last' = Last("remove_intersection", entity, BundleTypes[bundle_id], <<>>,
                            FALSE, EmptyMap, FALSE)
    /\ UNCHANGED <<change_tick, despawned, bundles>>

RemoveIntersection(entity, bundle_id) ==
    /\ CountOp
    /\ entity \in LiveEntities
    /\ \E old_location \in HandleLocations(entity) :
         LET r == remove_bundle_from_archetype(archetypes, tables,
                      old_location.archetype_id, bundle_id, TRUE)
             new_archetype_id == r.result
         IN IF new_archetype_id = 0
            THEN \* expect("intersections should always return a result")
                 /\ archetypes' = r.archetypes
                 /\ tables' = r.tables
                 /\ handle' = [entity |-> entity, location |-> old_location]
                 /\ last' = Last("remove_intersection", entity, BundleTypes[bundle_id], <<>>,
                                 FALSE, EmptyMap, TRUE)
                 /\ UNCHANGED <<entities, sparse_sets, removed_components>>
            ELSE IF new_archetype_id = old_location.archetype_id
            THEN /\ archetypes' = r.archetypes
                 /\ tables' = r.tables
                 /\ handle' = [entity |-> entity, location |-> old_location]
                 /\ last' = Last("remove_intersection", entity, BundleTypes[bundle_id], <<>>,
                                 FALSE, EmptyMap, FALSE)
                 /\ UNCHANGED <<entities, sparse_sets, removed_components>>
            ELSE LET dropped == DropComponents(sparse_sets, removed_components,
                                    r.archetypes[old_location.archetype_id],
                                    BundleTypes[bundle_id], entity, 1)
                     m == move_entity_from_remove(entity, old_location.archetype_id,
                              old_location, entities, r.archetypes, r.tables,
                              new_archetype_id)
                 IN /\ entities' = m.entities
                    /\ archetypes' = m.archetypes
                    /\ tables' = m.tables
                    /\ sparse_sets' = dropped.sparse_sets
                    /\ removed_components' = dropped.removed_components
                    /\ handle' = [entity |-> entity, location |-> m.location]
                    /\ last' = Last("remove_intersection", entity, BundleTypes[bundle_id], <<>>,
                                    FALSE, EmptyMap, FALSE)
    /\ UNCHANGED <<change_tick, despawned, bundles>>

(***************************************************************************)
(* EntityMut::despawn                                                      *)
(***************************************************************************)
\* the loops that record, respectively drop, each component of a list
RECURSIVE PushAll(_, _, _, _)
PushAll(removed, component_ids, entity, i) ==
    IF i > Len(component_ids) THEN removed
    ELSE PushAll(LedgerPush(removed, component_ids[i], entity), component_ids,
                 entity, i + 1)

\* a variant that leaves the sparse maps alone
RemoveAllSparseNone(sparse, component_ids, entity, i) == sparse

RECURSIVE RemoveAllSparse(_, _, _, _)
RemoveAllSparse(sparse, component_ids, entity, i) ==
    IF i > Len(component_ids) THEN sparse
    ELSE RemoveAllSparse([sparse EXCEPT ![component_ids[i]] = SparseRemove(@, entity)],
                         component_ids, entity, i + 1)

\* what follows entities.free(self.entity), which returned location
despawn(entity, location, ents, archs, tbls, sparse, removed) ==
    LET archetype == archs[location.archetype_id]
        removed1 == PushAll(removed,
                            archetype.table_components \o archetype.sparse_set_components,
                            entity, 1)
        remove_result == ArchetypeSwapRemove(archetype, location.archetype_row)
        archs1 == [archs EXCEPT ![location.archetype_id] = remove_result.archetype]
        ents1 == IF remove_result.swapped_entity # NoEntity
                 THEN EntitiesSet(ents, remove_result.swapped_entity.index, location)
                 ELSE ents
        table_row == remove_result.table_row
        sparse1 == RemoveAllSparse(sparse, archetype.sparse_set_components, entity, 1)
        moved == TableSwapRemove(tbls[archetype.table_id], table_row)
        tbls1 == [tbls EXCEPT ![archetype.table_id] = moved.table]
        moved_location == EntitiesGet(ents1, moved.swapped_entity)
        archs2 == IF moved.swapped_entity # NoEntity
                  THEN [archs1 EXCEPT ![moved_location.archetype_id] =
                           ArchetypeSetEntityTableRow(@, moved_location.archetype_row,
                                                      table_row)]
                  ELSE archs1
    IN [entities |-> ents1, archetypes |-> archs2, tables |-> tbls1,
        sparse_sets |-> sparse1, removed_components |-> removed1]

\* a variant of Despawn that never frees the entity in the directory
DespawnKeepEntry(entity) ==
    /\ CountOp
    /\ entity \in LiveEntities
    /\ entity.generation < MaxGeneration
    /\ LET r == despawn(entity, EntitiesGet(entities, entity), entities, archetypes,
                        tables, sparse_sets, removed_components)
       IN /\ entities' = r.entities
          /\ archetypes' = r.archetypes
          /\ tables' = r.tables
          /\ sparse_sets' = r.sparse_sets
          /\ removed_components' = r.removed_components
          /\ handle' = NoHandle
          /\ last' = Last("despawn", entity, <<>>, <<>>, FALSE, EmptyMap, FALSE)
          /\ despawned' = despawned \cup {entity}
    /\ UNCHANGED <<change_tick, bundles>>

Despawn(entity) ==
    /\ CountOp
    /\ entity \in LiveEntities
    /\ entity.generation < MaxGeneration
    /\ LET freed == EntitiesFree(entities, entity)
           r == despawn(entity, freed.location, freed.entities, archetypes, tables,
                        sparse_sets, removed_components)
       IN /\ entities' = r.entities
          /\ archetypes' = r.archetypes
          /\ tables' = r.tables
          /\ sparse_sets' = r.sparse_sets
          /\ removed_components' = r.removed_components
          /\ handle' = NoHandle
          /\ last' = Last("despawn", entity, <<>>, <<>>, FALSE, EmptyMap, FALSE)
          /\ despawned' = despawned \cup {entity}
    /\ UNCHANGED <<change_tick, bundles>>

(***************************************************************************)
(* EntityMut::despawn through a handle whose entity was freed meanwhile    *)
(* (the handle outlived a world_mut() or a callback that despawned it):    *)
(* entities.free returns None and the expect aborts the call.              *)
(***************************************************************************)
\* a variant that frees whatever entity lives at the index of the identifier
DespawnFreedByIndex(entity) ==
    /\ CountOp
    /\ entity \in despawned
    /\ LET alive == {e \in LiveEntities : e.index = entity.index}
       IN IF alive = {}
          THEN /\ last' = Last("despawn", entity, <<>>, <<>>, FALSE, EmptyMap, TRUE)
               /\ UNCHANGED <<entities, archetypes, tables, sparse_sets,
                              removed_components>>
          ELSE LET e == CHOOSE e \in alive : TRUE
                   freed == EntitiesFree(entities, e)
                   r == despawn(e, freed.location, freed.entities, archetypes, tables,
                                sparse_sets, removed_components)
               IN /\ entities' = r.entities
                  /\ archetypes' = r.archetypes
                  /\ tables' = r.tables
                  /\ sparse_sets' = r.sparse_sets
                  /\ removed_components' = r.removed_components
                  /\ last' = Last("despawn", entity, <<>>, <<>>, FALSE, EmptyMap, FALSE)
    /\ handle' = NoHandle
    /\ UNCHANGED <<change_tick, despawned, bundles>>

DespawnFreed(entity) ==
    /\ CountOp
    /\ entity \in despawned
    /\ LET freed == EntitiesFree(entities, entity)
       IN /\ freed.location = NoLocation
          /\ entities' = freed.entities
          /\ last' = Last("despawn", entity, <<>>, <<>>, FALSE, EmptyMap, TRUE)
    /\ handle' = NoHandle
    /\ UNCHANGED <<archetypes, tables, sparse_sets, removed_components, change_tick,
                   despawned, bundles>>

(***************************************************************************)
(* EntityMut::world_scope: the callback gets the world and may perform any *)
(* operations on it (the steps taken while scope holds the handle); when   *)
(* it returns, update_location reads the location of the entity from the   *)
(* directory again, and aborts (unwrap) if the entity is gone.             *)
(***************************************************************************)
\* a variant that keeps the location cached before the callback
update_location_cached(ents, this) ==
    IF EntitiesGet(ents, this.entity) = NoLocation THEN NoLocation ELSE this.location

\* EntityMut::update_location; NoLocation stands for the failed unwrap
update_location(ents, this) == EntitiesGet(ents, this.entity)

\* world_scope is entered: f(self.world) begins
BeginScope(entity) ==
    /\ ops < MaxOps
    /\ ops' = ops + 1
    /\ pre' = World
    /\ scope = NoHandle
    /\ entity \in LiveEntities
    /\ \E location \in HandleLocations(entity) :
         scope' = [entity |-> entity, location |-> location]
    /\ handle' = NoHandle
    /\ last' = Last("world_scope_begin", entity, <<>>, <<>>, FALSE, EmptyMap, FALSE)
    /\ UNCHANGED <<entities, archetypes, tables, sparse_sets, removed_components,
                   change_tick, despawned, bundles>>

\* f returns and update_location runs; last.some tells whether the entity
\* was relocated while the callback ran
EndScope ==
    /\ scope # NoHandle
    /\ LET location == update_location(entities, scope)
       IN /\ handle' = IF location = NoLocation THEN NoHandle
                       ELSE [entity |-> scope.entity, location |-> location]
          /\ last' = Last("world_scope", scope.entity, <<>>, <<>>,
                          location # scope.location, EmptyMap, location = NoLocation)
    /\ scope' = NoHandle
    /\ pre' = World
    /\ UNCHANGED <<entities, archetypes, tables, sparse_sets, removed_components,
                   change_tick, despawned, bundles, ops>>

(***************************************************************************)
(* The accessors of a handle.  A lookup changes nothing; it is recorded in *)
(* last.ret as what each accessor reported for the component: present      *)
(* (TRUE) or absent.                                                       *)
(***************************************************************************)
\* a variant that only looks among the table-backed components
contains_table_component_with_id(archs, component_id, location) ==
    component_id \in Range(archs[location.archetype_id].table_components)

contains_component_with_id(archs, component_id, location) ==
    ArchetypeContains(archs[location.archetype_id], component_id)

\* get_by_id, get_change_ticks_by_id, get_mut_by_id: None for an id the
\* registry does not know, else what the world finds at the location
get_by_id(tbls, sparse, component_id, entity, location) ==
    IF ~get_info(component_id) THEN {}
    ELSE GetComponent(tbls, sparse, component_id, entity, location)

\* get::<T>, with T the type registered under the id, if any
get(tbls, sparse, component_id, entity, location) ==
    IF component_id \notin ComponentIds THEN {}
    ELSE GetComponent(tbls, sparse, component_id, entity, location)

LookupIds == ComponentIds \cup UnknownComponentIds

Lookup(entity, component_id) ==
    /\ CountOp
    /\ entity \in LiveEntities
    /\ \E location \in HandleLocations(entity) :
         /\ handle' = [entity |-> entity, location |-> location]
         /\ last' = Last("lookup", entity, <<component_id>>, <<>>, FALSE,
                [contains_id |->
                     contains_component_with_id(archetypes, component_id, location),
                 get_by_id |->
                     get_by_id(tables, sparse_sets, component_id, entity, location) # {},
                 get_change_ticks_by_id |->
                     get_by_id(tables, sparse_sets, component_id, entity, location) # {},
                 get_mut_by_id |->
                     get_by_id(tables, sparse_sets, component_id, entity, location) # {},
                 get |->
                     get(tables, sparse_sets, component_id, entity, location) # {}],
                FALSE)
    /\ UNCHANGED <<entities, archetypes, tables, sparse_sets, removed_components,
                   change_tick, despawned, bundles>>

(***************************************************************************)
(* A write through the exclusive view of get_mut / get_mut_by_id: the view *)
(* points at the cell found at the cached location, and the write sets the *)
(* value and stamps changed with the change tick read when the view was    *)
(* made.  A view of a table row past the end of the column points outside  *)
(* the column and the write leaves the column as it is.                    *)
(***************************************************************************)
WriteThrough(entity, component_id, value) ==
    /\ CountOp
    /\ entity \in LiveEntities
    /\ \E location \in HandleLocations(entity) :
         LET found == get_by_id(tables, sparse_sets, component_id, entity, location)
         IN /\ handle' = [entity |-> entity, location |-> location]
            /\ last' = Last("write", entity, <<component_id>>, <<value>>, found # {},
                            EmptyMap, FALSE)
            /\ IF found = {}
               THEN UNCHANGED <<tables, sparse_sets>>
               ELSE LET w == WriteComponents(tables, sparse_sets, <<component_id>>,
                                 <<value>>, entity, location.table_id,
                                 location.table_row, change_tick, 1)
                    IN /\ tables' = w.tables
                       /\ sparse_sets' = w.sparse_sets
    /\ UNCHANGED <<entities, archetypes, removed_components, change_tick, despawned, bundles>>

\* World::increment_change_tick; within MaxOps operations the counter stays
\* far from the point where it wraps
AdvanceTick ==
    /\ CountOp
    /\ change_tick' = change_tick + 1
    /\ last' = Last("increment_change_tick", NoEntity, <<>>, <<>>, FALSE, EmptyMap, FALSE)
    /\ UNCHANGED <<entities, archetypes, tables, sparse_sets, removed_components,
                   handle, despawned, bundles>>

(***************************************************************************)
(* Ticks are u32 counters that wrap.  A tick is kept as two limbs of       *)
(* TickBits \div 2 bits, hi and lo, and stands for hi * Limb + lo.          *)
(***************************************************************************)
TickBits == 32

Limb == 2 ^ (TickBits \div 2)

TickSpread == 10

\* the tick n steps after zero, and the tick n steps before the wrap
TickAfterZero(n) == [hi |-> 0, lo |-> n]

TickBeforeWrap(n) == [hi |-> Limb - 1, lo |-> Limb - n]

\* u32::wrapping_sub and u32::wrapping_add
wrapping_sub(a, b) ==
    LET borrow == IF a.lo < b.lo THEN 1 ELSE 0
    IN [hi |-> (a.hi - b.hi - borrow) % Limb, lo |-> (a.lo - b.lo) % Limb]

wrapping_add(a, b) ==
    LET carry == IF a.lo + b.lo >= Limb THEN 1 ELSE 0
    IN [hi |-> (a.hi + b.hi + carry) % Limb, lo |-> (a.lo + b.lo) % Limb]

\* the order of u32
TickLess(a, b) == a.hi < b.hi \/ (a.hi = b.hi /\ a.lo < b.lo)

\* a variant that compares the stamp with the last observed tick directly
is_changed_plain(changed, last_change_tick, tick) == TickLess(last_change_tick, changed)

\* ComponentTicks::is_changed(last_change_tick, change_tick) of a component
\* stamped changed: more ticks have passed since the last observation than
\* since the change
is_changed(changed, last_change_tick, tick) ==
    LET ticks_since_change == wrapping_sub(tick, changed)
        ticks_since_system == wrapping_sub(tick, last_change_tick)
    IN TickLess(ticks_since_change, ticks_since_system)

\* the ticks the queries are made with: around zero and just below the wrap
TickSamples ==
    {TickAfterZero(n) : n \in 0..TickSpread} \cup {TickBeforeWrap(n) : n \in 1..TickSpread}

\* the change-detection query with the window (last_change_tick, tick) on a
\* component stamped changed; last.values holds the three ticks
IsChangedQuery ==
    /\ last.op = "ticks"
    /\ last' = Last("is_changed", NoEntity, <<>>, last.values,
                    is_changed(last.values[3], last.values[1], last.values[2]),
                    EmptyMap, FALSE)
    /\ UNCHANGED <<entities, archetypes, tables, sparse_sets, removed_components,
                   change_tick, handle, pre, despawned, bundles, ops, scope>>

Next ==
    \/ \E bundle_id \in BundleIds :
         \E values \in [1..Len(BundleTypes[bundle_id]) -> SpawnValues] :
           Spawn(bundle_id, values)
    \/ \E entity \in EntityIds, bundle_id \in BundleIds :
         \E values \in [1..Len(BundleTypes[bundle_id]) -> Values] :
           Insert(entity, bundle_id, values)
    \/ \E entity \in EntityIds, component_ids \in DynamicIdLists :
         \E values \in [1..Len(component_ids) -> Values] :
           InsertBundleByIds(entity, component_ids, values)
    \/ \E entity \in EntityIds, bundle_id \in BundleIds : Remove(entity, bundle_id)
    \/ \E entity \in EntityIds, bundle_id \in BundleIds :
         RemoveIntersection(entity, bundle_id)
    \/ \E entity \in EntityIds : Despawn(entity)

Spec == Init /\ [][Next]_vars

(***************************************************************************)
(* The operations on handles that may have gone stale: despawn through a   *)
(* handle of a freed entity, and world_scope around the structural         *)
(* operations.                                                             *)
(***************************************************************************)
HandleNext ==
    \/ \E bundle_id \in BundleIds :
         \E values \in [1..Len(BundleTypes[bundle_id]) -> SpawnValues] :
           Spawn(bundle_id, values)
    \/ \E entity \in EntityIds, bundle_id \in BundleIds :
         \E values \in [1..Len(BundleTypes[bundle_id]) -> Values] :
           Insert(entity, bundle_id, values)
    \/ \E entity \in EntityIds, bundle_id \in BundleIds : Remove(entity, bundle_id)
    \/ \E entity \in EntityIds : Despawn(entity)
    \/ \E entity \in EntityIds : DespawnFreed(entity)
    \/ \E entity \in EntityIds : BeginScope(entity)
    \/ EndScope

HandleSpec == Init /\ [][HandleNext]_vars

(***************************************************************************)
(* The accessors, among the operations that spawn and reshape entities.    *)
(***************************************************************************)
AccessNext ==
    \/ \E bundle_id \in BundleIds :
         \E values \in [1..Len(BundleTypes[bundle_id]) -> SpawnValues] :
           Spawn(bundle_id, values)
    \/ \E entity \in EntityIds, bundle_id \in BundleIds : Remove(entity, bundle_id)
    \/ \E entity \in EntityIds, component_id \in LookupIds :
         Lookup(entity, component_id)
    \/ \E entity \in EntityIds, component_id \in LookupIds, value \in Values :
         WriteThrough(entity, component_id, value)
    \/ AdvanceTick

AccessSpec == Init /\ [][AccessNext]_vars

(***************************************************************************)
(* The change-detection queries alone.                                     *)
(***************************************************************************)
\* a fresh world, and the three ticks of a query: the window and the stamp
TickInit ==
    /\ InitWorld
    /\ \E changed \in TickSamples, last_change_tick \in TickSamples, tick \in TickSamples :
         last = [op |-> "ticks", entity |-> NoEntity, ids |-> <<>>,
                 values |-> <<last_change_tick, tick, changed>>, some |-> FALSE,
                 ret |-> EmptyMap, panic |-> FALSE, after |-> "", fresh |-> FALSE]

TickNext == IsChangedQuery

TickSpec == TickInit /\ [][TickNext]_vars

(***************************************************************************)
(* sorted_remove alone, on the lists its callers may give it: source       *)
(* strictly ascending (the component list of an archetype), remove         *)
(* ascending, with elements source has and elements it lacks.              *)
(***************************************************************************)
MaxListValue == 5
MaxRemoveLen == 3

ListValues == 1..MaxListValue

\* the strictly ascending lists over ListValues
SourceLists == {SortedSeq(S) : S \in SUBSET ListValues}

\* the ascending lists over ListValues of at most MaxRemoveLen elements
RemoveLists ==
    {s \in UNION {[1..n -> ListValues] : n \in 0..MaxRemoveLen} :
        \A i \in 1..(Len(s) - 1) : s[i] <= s[i + 1]}

\* a fresh world and the two lists of a call: last.ids is source,
\* last.values is remove
SortedRemoveInit ==
    /\ InitWorld
    /\ \E source \in SourceLists, remove \in RemoveLists :
         last = [op |-> "lists", entity |-> NoEntity, ids |-> source,
                 values |-> remove, some |-> FALSE, ret |-> EmptyMap,
                 panic |-> FALSE, after |-> "", fresh |-> FALSE]

\* the call; last.ret is source as the call leaves it
SortedRemoveCall ==
    /\ last.op = "lists"
    /\ last' = Last("sorted_remove", NoEntity, last.ids, last.values, TRUE,
                    sorted_remove(last.ids, last.values), FALSE)
    /\ UNCHANGED <<entities, archetypes, tables, sparse_sets, removed_components,
                   change_tick, handle, pre, despawned, bundles, ops, scope>>

SortedRemoveNext == SortedRemoveCall

SortedRemoveSpec == SortedRemoveInit /\ [][SortedRemoveNext]_vars

(***************************************************************************)
(* Observations used by the properties.                                    *)
(***************************************************************************)
\* the component set of a live entity in the stores w, as contains_id
\* reports it: the components of the archetype its location names
ComponentsOf(w, entity) ==
    ArchetypeComponents(w.archetypes[EntitiesGet(w.entities, entity).archetype_id])

\* the table and the table row that hold the entity in the stores w,
\* according to the resident list of its archetype
TableOf(w, entity) ==
    w.archetypes[EntitiesGet(w.entities, entity).archetype_id].table_id

TableRowOf(w, entity) ==
    LET location == EntitiesGet(w.entities, entity)
    IN w.archetypes[location.archetype_id].entities[location.archetype_row].table_row

\* the location of the entity names rows that hold the entity
LocationCorrect(entity) ==
    LET location == EntitiesGet(entities, entity)
    IN /\ location.archetype_id \in 1..Len(archetypes)
       /\ location.archetype_row \in 1..Len(archetypes[location.archetype_id].entities)
       /\ archetypes[location.archetype_id].entities[location.archetype_row].entity
              = entity
       /\ location.table_id \in 1..Len(tables)
       /\ location.table_row \in 1..Len(tables[location.table_id].entities)
       /\ tables[location.table_id].entities[location.table_row] = entity

\* the last operation was a removal or a despawn that took the entity out
\* of a row of its table that was not the last row
VacatedNonLastRow ==
    /\ last.op \in {"remove", "remove_intersection", "despawn"}
    /\ \/ last.op = "despawn"
       \/ EntitiesGet(entities, last.entity).table_id # TableOf(pre, last.entity)
    /\ TableRowOf(pre, last.entity) < Len(pre.tables[TableOf(pre, last.entity)].entities)

(***************************************************************************)
(* C1: for every live entity the location in the directory is physically   *)
(* correct: the archetype it names holds the entity at archetype_row and   *)
(* the table it names holds the entity at table_row.                       *)
(***************************************************************************)
C1_LocationInvariant == \A entity \in LiveEntities : LocationCorrect(entity)

(***************************************************************************)
(* C2: when a removal or a despawn vacates a row of a table that is not    *)
(* its last row, the entity of the last row is moved into the vacated row  *)
(* and its location in the directory has table_row equal to that row.      *)
(***************************************************************************)
C2_SwapRemoveUpdatesLocation ==
    VacatedNonLastRow =>
        LET table_id == TableOf(pre, last.entity)
            row == TableRowOf(pre, last.entity)
            relocated == pre.tables[table_id].entities[Len(pre.tables[table_id].entities)]
        IN /\ tables[table_id].entities[row] = relocated
           /\ EntitiesGet(entities, relocated).table_row = row

(***************************************************************************)
(* C3: inserting a bundle and then removing the same bundle (strict)       *)
(* returns the inserted values and leaves the entity in the archetype it   *)
(* occupied before the insertion.  In a step that removes the bundle the   *)
(* step before inserted, last holds the record of the insertion and pre    *)
(* the stores before it.                                                   *)
(***************************************************************************)
RemoveAfterInsert ==
    /\ last.op = "insert"
    /\ last'.op = "remove"
    /\ last'.entity = last.entity
    /\ last'.ids = last.ids

RoundTrip ==
    /\ last'.some
    /\ \A i \in 1..Len(last.ids) : last'.ret[last.ids[i]] = last.values[i]
    /\ EntitiesGet(entities', last.entity).archetype_id
           = EntitiesGet(pre.entities, last.entity).archetype_id

InsertedNew ==
    /\ last.ids # <<>>
    /\ Range(last.ids) \cap ComponentsOf(pre, last.entity) = {}

StoredValue(w, entity, component_id) ==
    IF IsTable(component_id)
    THEN w.tables[TableOf(w, entity)].columns[component_id][TableRowOf(w, entity)].value
    ELSE w.sparse_sets[component_id][entity].value

\* C4: None exactly when a component is missing, else the stored values
\* and the old component set minus the bundle
C4_StrictRemove ==
    last.op = "remove" =>
        LET bundle == Range(last.ids)
            old == ComponentsOf(pre, last.entity)
        IN /\ ~last.some <=> bundle \ old # {}
           /\ last.some =>
                /\ \A c \in bundle : last.ret[c] = StoredValue(pre, last.entity, c)
                /\ ComponentsOf(World, last.entity) = old \ bundle

(***************************************************************************)
(* C5: when the entity has some but not all components of the bundle, a    *)
(* strict remove returns None and leaves the entity as it was, while       *)
(* remove_intersection succeeds, removes exactly the components of the     *)
(* bundle the entity has and leaves its other components, with their       *)
(* values, in place.                                                       *)
(***************************************************************************)
PartialOverlap ==
    /\ Range(last.ids) \cap ComponentsOf(pre, last.entity) # {}
    /\ Range(last.ids) \ ComponentsOf(pre, last.entity) # {}

\* C5: with a partial overlap strict remove returns None, and
\* remove_intersection removes exactly the part the entity has
C5_PartialBundle ==
    LET bundle == Range(last.ids)
        old == ComponentsOf(pre, last.entity)
    IN /\ last.op = "remove" /\ PartialOverlap =>
            /\ ~last.some
            /\ ComponentsOf(World, last.entity) = old
       /\ last.op = "remove_intersection" /\ PartialOverlap =>
            /\ ~last.panic
            /\ ComponentsOf(World, last.entity) = old \ bundle
            /\ \A c \in old \ bundle :
                 StoredValue(World, last.entity, c) = StoredValue(pre, last.entity, c)

\* remove_intersection took the present part of a bundle right after a
\* strict remove of the same bundle from the same entity returned None
C5_Witness ==
    /\ last.op = "remove_intersection"
    /\ last.after = "remove"
    /\ PartialOverlap
    /\ ComponentsOf(World, last.entity) # ComponentsOf(pre, last.entity)

(***************************************************************************)
(* C6: remove_intersection always succeeds: whatever the edges of the      *)
(* archetype hold (also a strict removal of the same bundle cached as      *)
(* invalid), the resolution yields a destination archetype, the call does  *)
(* not abort, and afterwards the component set of the entity is the old    *)
(* set minus the components of the bundle.                                 *)
(***************************************************************************)
C6_IntersectionAlwaysSucceeds ==
    last.op = "remove_intersection" =>
        /\ ~last.panic
        /\ ComponentsOf(World, last.entity)
              = ComponentsOf(pre, last.entity) \ Range(last.ids)

BundleIdOf(ids) == CHOOSE b \in BundleIds : BundleTypes[b] = ids

\* remove_intersection moved the entity out of an archetype whose strict
\* edge for the same bundle was cached as invalid
C6_Witness ==
    /\ last.op = "remove_intersection"
    /\ pre.archetypes[EntitiesGet(pre.entities, last.entity).archetype_id]
          .remove_bundle[BundleIdOf(last.ids)] = 0
    /\ ComponentsOf(World, last.entity) # ComponentsOf(pre, last.entity)

(***************************************************************************)
(* C7: after insert the component set of the entity is the union of its    *)
(* previous set and the components of the bundle, and every component of   *)
(* the bundle reads back, through the handle, as the value just inserted.  *)
(***************************************************************************)
\* what EntityMut::get_by_id can return for the entity of the handle
ReadBack(component_id) ==
    GetComponent(tables, sparse_sets, component_id, handle.entity, handle.location)

\* position i of the bundle given to the last operation reads back as given
ReadsBackAsGiven(i) ==
    /\ ReadBack(last.ids[i]) # {}
    /\ \A cell \in ReadBack(last.ids[i]) : cell.value = last.values[i]

\* C7: after insert the component set is the union and the bundle reads
\* back as inserted
C7_InsertUnionAndReadBack ==
    last.op = "insert" =>
        /\ ComponentsOf(World, last.entity)
              = ComponentsOf(pre, last.entity) \cup Range(last.ids)
        /\ \A i \in 1..Len(last.ids) : ReadsBackAsGiven(i)

(***************************************************************************)
(* C8: for a list of distinct registered component ids in any order, with  *)
(* the values at matching positions, after insert_bundle_by_ids the entity *)
(* holds the i-th value under the i-th component id, for every i.          *)
(***************************************************************************)
C8_ByIdsMatchingPositions ==
    last.op = "insert_bundle_by_ids" /\ ~last.panic =>
        \A i \in 1..Len(last.ids) : ReadsBackAsGiven(i)

(***************************************************************************)
(* C9: an operation appends to the ledger exactly one entry, the entity,   *)
(* under each component it removes, and nothing else: a strict remove that *)
(* succeeds records every component of the bundle, remove_intersection the *)
(* components of the bundle the entity had, despawn every component of the *)
(* archetype of the entity, and every other operation (a failed strict     *)
(* remove and a remove_intersection that changes nothing included) records *)
(* nothing.                                                                *)
(***************************************************************************)
RecordedComponents ==
    CASE last.op = "remove" /\ last.some -> Range(last.ids)
      [] last.op = "remove_intersection" /\ ~last.panic ->
             Range(last.ids) \cap ComponentsOf(pre, last.entity)
      [] last.op = "despawn" -> ComponentsOf(pre, last.entity)
      [] OTHER -> {}

\* C9: the ledger grew by exactly the entity under each component the
\* last operation removed
C9_LedgerExact ==
    \A c \in ComponentIds :
        removed_components[c] =
            pre.removed_components[c]
                \o (IF c \in RecordedComponents THEN <<last.entity>> ELSE <<>>)

\* remove_intersection recorded the present part of a bundle that a strict
\* remove would have rejected
C9_Witness ==
    /\ last.op = "remove_intersection"
    /\ PartialOverlap
    /\ \E c \in Range(last.ids) :
         /\ Len(removed_components[c]) = Len(pre.removed_components[c]) + 1
         /\ removed_components[c][Len(removed_components[c])] = last.entity

(***************************************************************************)
(* C10: once the entity (i, g) is despawned, a lookup with (i, g) reports  *)
(* absent in every later state, and the next entity allocated at index i   *)
(* has generation g + 1.                                                   *)
(***************************************************************************)
\* the highest generation despawned at an index
LastDespawnedGeneration(index) ==
    CHOOSE g \in {d.generation : d \in {x \in despawned : x.index = index}} :
        \A d \in despawned : d.index = index => d.generation <= g

\* C10: stale identifiers look up as absent, and an index is reused with
\* the generation after the despawned one
C10_GenerationSafety ==
    /\ \A d \in despawned : EntitiesGet(entities, d) = NoLocation
    /\ \A e \in LiveEntities :
         (\E d \in despawned : d.index = e.index) =>
             e.generation = LastDespawnedGeneration(e.index) + 1
    /\ last.op = "despawn" =>
         entities.meta[last.entity.index].generation = last.entity.generation + 1

\* a live entity reuses the index of a despawned one, whose stale id is
\* still around
C10_Witness ==
    /\ last.op = "spawn"
    /\ \E d \in despawned :
         /\ d.index = last.entity.index
         /\ last.entity.generation = d.generation + 1
         /\ last.entity \in LiveEntities

(***************************************************************************)
(* C11: a despawn issued for an identifier that was freed before is        *)
(* reported (the call aborts on "entity should exist"), changes nothing in *)
(* the stores, and leaves an entity that reuses the index as it was.       *)
(***************************************************************************)
C11_DespawnFreedReported ==
    last.op = "despawn" /\ EntitiesGet(pre.entities, last.entity) = NoLocation =>
        /\ last.panic
        /\ World = pre
        /\ \A e \in EntityIds :
             e.index = last.entity.index =>
                 EntitiesGet(entities, e) = EntitiesGet(pre.entities, e)

\* the freed identifier was despawned again while another entity lives at
\* its index
C11_Witness ==
    /\ last.op = "despawn"
    /\ last.panic
    /\ last.entity \in despawned
    /\ \E e \in LiveEntities : e.index = last.entity.index

(***************************************************************************)
(* C16: when world_scope returns, whatever the callback did to the world,  *)
(* the location cached in the handle is the location the directory holds   *)
(* for the entity of the handle.                                           *)
(***************************************************************************)
C16_ScopeRefreshesLocation ==
    last.op = "world_scope" /\ ~last.panic =>
        /\ handle.entity = last.entity
        /\ handle.location # NoLocation
        /\ handle.location = EntitiesGet(entities, handle.entity)

\* world_scope returned after a callback that relocated the entity
C16_Witness ==
    /\ last.op = "world_scope"
    /\ ~last.panic
    /\ last.some
    /\ handle.location = EntitiesGet(entities, last.entity)

(***************************************************************************)
(* C12: a lookup by component id changes nothing and reports absent when   *)
(* the registry does not know the id or the archetype of the entity does   *)
(* not contain it; contains_id, get_by_id and the typed get agree on       *)
(* whether the component is there.                                         *)
(***************************************************************************)
C12_LookupsAgree ==
    last.op = "lookup" =>
        LET c == last.ids[1]
            has == c \in ComponentsOf(pre, last.entity)
        IN /\ World = pre
           /\ ~get_info(c) \/ ~has =>
                /\ ~last.ret.get_by_id
                /\ ~last.ret.get_mut_by_id
                /\ ~last.ret.get_change_ticks_by_id
           /\ last.ret.contains_id = has
           /\ last.ret.get_by_id = last.ret.contains_id
           /\ last.ret.get = last.ret.contains_id

\* a sparse-backed component was looked up and found by every accessor
C12_Witness ==
    /\ last.op = "lookup"
    /\ IsSparse(last.ids[1])
    /\ last.ret.contains_id
    /\ last.ret.get_by_id
    /\ last.ret.get

(***************************************************************************)
(* C17: a write through the exclusive view of a component the entity has   *)
(* stamps the changed tick of the component with the current change tick,  *)
(* and the component then reads back as the value written.                 *)
(***************************************************************************)
C17_WriteStampsAndSticks ==
    last.op = "write" /\ last.some =>
        /\ ReadBack(last.ids[1]) # {}
        /\ \A cell \in ReadBack(last.ids[1]) :
             /\ cell.value = last.values[1]
             /\ cell.changed = change_tick

(***************************************************************************)
(* C18: with the window (last, current), a component stamped s is reported *)
(* changed exactly when the wrapping age of s, current - s, is smaller     *)
(* than the wrapping age of last, current - last.  For the window (5, 10)  *)
(* a stamp of 7 is changed and a stamp of 3 is not, and the answer stays   *)
(* the same when the three ticks are moved together across the wrap.       *)
(***************************************************************************)
Age(current, t) == wrapping_sub(current, t)

\* the three ticks of the query moved forward by d ticks
MovedAnswer(d) ==
    is_changed(wrapping_add(last.values[3], d), wrapping_add(last.values[1], d),
               wrapping_add(last.values[2], d))

TickShifts ==
    {TickAfterZero(n) : n \in 0..TickSpread} \cup {TickBeforeWrap(n) : n \in 1..(2 * TickSpread)}

\* C18: changed iff age(s) < age(last); (5, 10): 7 changed, 3 unchanged;
\* the same answer across the wrap
C18_WrapAwareWindow ==
    last.op = "is_changed" =>
        LET l == last.values[1]
            c == last.values[2]
            s == last.values[3]
        IN /\ last.some <=> TickLess(Age(c, s), Age(c, l))
           /\ l = TickAfterZero(5) /\ c = TickAfterZero(10) /\ s = TickAfterZero(7)
                => last.some
           /\ l = TickAfterZero(5) /\ c = TickAfterZero(10) /\ s = TickAfterZero(3)
                => ~last.some
           /\ \A d \in TickShifts : MovedAnswer(d) = last.some

\* a stamp inside a window that spans the wrap was reported changed
C18_Witness ==
    /\ last.op = "is_changed"
    /\ last.some
    /\ TickLess(last.values[2], last.values[1])
    /\ TickLess(last.values[3], last.values[1])
    /\ ~TickLess(last.values[2], last.values[3])

(***************************************************************************)
(* C13: resolving the same (archetype, bundle, mode) twice gives the same  *)
(* result, and the second resolution takes the cached edge: it works       *)
(* nothing out and makes no table and no archetype.                        *)
(***************************************************************************)
Modes == {FALSE, TRUE}

\* the resolution, and the same resolution made again right after it
ResolvedTwice(archetype_id, bundle_id, intersection) ==
    LET first == remove_bundle_from_archetype(archetypes, tables, archetype_id,
                                              bundle_id, intersection)
    IN [first |-> first,
        second |-> remove_bundle_from_archetype(first.archetypes, first.tables,
                                                archetype_id, bundle_id, intersection)]

\* the edge the last removal resolved, as it was cached when the removal began
EdgeBefore ==
    GetRemoveEdge(pre.archetypes[EntitiesGet(pre.entities, last.entity).archetype_id],
                  BundleIdOf(last.ids), last.op = "remove_intersection")

\* C13: a second resolution returns what the first returned, from the cache
C13_ResolutionCached ==
    /\ \A archetype_id \in 1..Len(archetypes), bundle_id \in BundleIds,
          intersection \in Modes :
         LET r == ResolvedTwice(archetype_id, bundle_id, intersection)
         IN /\ r.second.result = r.first.result
            /\ ~r.second.computed
            /\ r.second.archetypes = r.first.archetypes
            /\ r.second.tables = r.first.tables
    /\ last.op \in {"remove", "remove_intersection"} /\ ~last.panic
         /\ EdgeBefore # NotCached =>
             /\ Len(archetypes) = Len(pre.archetypes)
             /\ Len(tables) = Len(pre.tables)
             /\ EntitiesGet(entities, last.entity).archetype_id =
                  IF EdgeBefore = 0
                  THEN EntitiesGet(pre.entities, last.entity).archetype_id
                  ELSE EdgeBefore

\* a removal that moved the entity along an edge cached by an earlier removal
C13_Witness ==
    /\ last.op = "remove"
    /\ last.some
    /\ EdgeBefore # NotCached
    /\ EdgeBefore # 0

(***************************************************************************)
(* C19: a strict remove that returns absent leaves the entity, its         *)
(* components, the tables, the sparse maps and the ledger as they were;    *)
(* only the edge cache of an archetype may have gained an entry.           *)
(***************************************************************************)
WithoutEdges(archetype) ==
    [table_components |-> archetype.table_components,
     sparse_set_components |-> archetype.sparse_set_components,
     table_id |-> archetype.table_id,
     entities |-> archetype.entities]

\* every edge is as it was, or was not cached before
EdgesOnlyGained(before, after) ==
    \A b \in BundleIds :
        /\ after.remove_bundle[b] # before.remove_bundle[b]
             => before.remove_bundle[b] = NotCached
        /\ after.remove_bundle_intersection[b] # before.remove_bundle_intersection[b]
             => before.remove_bundle_intersection[b] = NotCached

\* C19: remove returning None changes nothing but the edge cache
C19_FailedRemoveNoOp ==
    last.op = "remove" /\ ~last.some /\ ~last.panic =>
        /\ entities = pre.entities
        /\ tables = pre.tables
        /\ sparse_sets = pre.sparse_sets
        /\ removed_components = pre.removed_components
        /\ Len(archetypes) = Len(pre.archetypes)
        /\ \A i \in 1..Len(archetypes) :
             /\ WithoutEdges(archetypes[i]) = WithoutEdges(pre.archetypes[i])
             /\ EdgesOnlyGained(pre.archetypes[i], archetypes[i])

\* a strict remove of a bundle the entity has only a part of returned
\* absent and cached the rejection
C19_Witness ==
    /\ last.op = "remove"
    /\ ~last.some
    /\ ~last.panic
    /\ PartialOverlap
    /\ archetypes # pre.archetypes

(***************************************************************************)
(* C20: the strict and the intersection resolution of a bundle from an     *)
(* archetype keep separate cache slots.  Strict yields absent exactly when *)
(* a component of the bundle is missing from the archetype; intersection   *)
(* always yields the archetype with the present components removed; and    *)
(* neither answer depends on whether the other mode was resolved first.    *)
(***************************************************************************)
Resolve(archs, tbls, archetype_id, bundle_id, intersection) ==
    remove_bundle_from_archetype(archs, tbls, archetype_id, bundle_id, intersection)

\* C20: separate slots, strict absent iff a component is missing,
\* intersection never absent
C20_SeparateSlots ==
    \A archetype_id \in 1..Len(archetypes), bundle_id \in BundleIds :
        LET strict == Resolve(archetypes, tables, archetype_id, bundle_id, FALSE)
            inter == Resolve(archetypes, tables, archetype_id, bundle_id, TRUE)
            inter_after == Resolve(strict.archetypes, strict.tables, archetype_id,
                                   bundle_id, TRUE)
            strict_after == Resolve(inter.archetypes, inter.tables, archetype_id,
                                    bundle_id, FALSE)
            had == ArchetypeComponents(archetypes[archetype_id])
        IN /\ strict.result = 0 <=> ~(BundleSet(bundle_id) \subseteq had)
           /\ strict.result # 0 =>
                ArchetypeComponents(strict.archetypes[strict.result])
                    = had \ BundleSet(bundle_id)
           /\ inter.result # 0
           /\ ArchetypeComponents(inter.archetypes[inter.result])
                = had \ BundleSet(bundle_id)
           /\ strict_after.result = strict.result
           /\ ArchetypeComponents(inter_after.archetypes[inter_after.result])
                = had \ BundleSet(bundle_id)

\* an archetype whose strict slot for a bundle holds the rejection while its
\* intersection slot for the same bundle holds an archetype
C20_Witness ==
    \E archetype_id \in 1..Len(archetypes), bundle_id \in BundleIds :
        /\ archetypes[archetype_id].remove_bundle[bundle_id] = 0
        /\ archetypes[archetype_id].remove_bundle_intersection[bundle_id] > 0

(***************************************************************************)
(* C14: after every operation each component value lives in exactly one    *)
(* place.  For a live entity and a component of its archetype there is one *)
(* stored value: in the table cell at the entity's row if the component is *)
(* table-backed, in the sparse map of the component under the entity if it *)
(* is sparse-backed.  Nothing is stored for a component the archetype of   *)
(* the entity lacks, nor for an entity that is not live.                   *)
(***************************************************************************)
\* the rows of the tables that hold a cell of the component for the entity
CellsOf(entity, component_id) ==
    {tr \in UNION {{<<t, r>> : r \in 1..Len(tables[t].entities)} : t \in 1..Len(tables)} :
        /\ tables[tr[1]].entities[tr[2]] = entity
        /\ component_id \in DOMAIN tables[tr[1]].columns
        /\ tables[tr[1]].columns[component_id][tr[2]] # Uninit}

\* the entity has an entry in the sparse map of the component
InSparseMap(entity, component_id) ==
    /\ component_id \in SparseComponentIds
    /\ entity \in DOMAIN sparse_sets[component_id]

\* the places that hold the component for the entity are exactly the one the
\* archetype and the location of the entity call for
OnePlace(entity, component_id) ==
    LET location == EntitiesGet(entities, entity)
    IN IF location = NoLocation \/ component_id \notin ComponentsOf(World, entity)
       THEN CellsOf(entity, component_id) = {} /\ ~InSparseMap(entity, component_id)
       ELSE IF IsTable(component_id)
       THEN CellsOf(entity, component_id) = {<<location.table_id, location.table_row>>}
       ELSE CellsOf(entity, component_id) = {} /\ InSparseMap(entity, component_id)

\* C14: one place per component of a live entity, none otherwise
C14_ExactlyOnePlace ==
    \A entity \in EntityIds, component_id \in ComponentIds : OnePlace(entity, component_id)

(***************************************************************************)
(* C15: every table is rectangular and dense.  Its columns and its entity  *)
(* list have the same number of rows, row i belongs to the entity recorded *)
(* for row i, and there are as many rows as live entities whose archetype  *)
(* uses the table.                                                         *)
(***************************************************************************)
\* the live entities whose archetype stores its table components in table t
UsersOf(t) == {e \in LiveEntities : TableOf(World, e) = t}

\* C15: equal column lengths, rows owned by the recorded entity, row count
\* equal to the number of users
C15_TablesDense ==
    \A t \in 1..Len(tables) :
        /\ \A c \in DOMAIN tables[t].columns :
             Len(tables[t].columns[c]) = Len(tables[t].entities)
        /\ \A r \in 1..Len(tables[t].entities) :
             /\ tables[t].entities[r] \in UsersOf(t)
             /\ TableRowOf(World, tables[t].entities[r]) = r
             /\ \A c \in DOMAIN tables[t].columns : tables[t].columns[c][r] # Uninit
        /\ Len(tables[t].entities) = Cardinality(UsersOf(t))

\* a removal or a despawn vacated a row that was not the last of its table,
\* and the table still has rows
C15_Witness ==
    /\ VacatedNonLastRow
    /\ Len(tables[TableOf(pre, last.entity)].entities) > 0
    /\ Len(tables[TableOf(pre, last.entity)].entities)
         < Len(pre.tables[TableOf(pre, last.entity)].entities)

(***************************************************************************)
(* C21: when the destination archetype is the source archetype (an insert  *)
(* of a bundle the entity has all of, an intersection removal of a bundle  *)
(* the entity has none of, a strict removal of the empty bundle) nothing   *)
(* is moved: no location changes and no archetype row or table row moves;  *)
(* a removal also leaves the sparse maps and the ledger as they were.      *)
(***************************************************************************)
\* no entity was relocated and no row of an archetype or a table moved
NothingMoved ==
    /\ entities = pre.entities
    /\ Len(archetypes) = Len(pre.archetypes)
    /\ \A i \in 1..Len(archetypes) :
         WithoutEdges(archetypes[i]) = WithoutEdges(pre.archetypes[i])
    /\ Len(tables) = Len(pre.tables)
    /\ \A t \in 1..Len(tables) :
         /\ tables[t].entities = pre.tables[t].entities
         /\ DOMAIN tables[t].columns = DOMAIN pre.tables[t].columns
         /\ \A c \in DOMAIN tables[t].columns :
              Len(tables[t].columns[c]) = Len(pre.tables[t].columns[c])

\* the last operation resolved to the archetype the entity was already in
SameArchetypeInsert ==
    /\ last.op \in {"insert", "insert_bundle_by_ids"}
    /\ ~last.panic
    /\ Range(last.ids) \subseteq ComponentsOf(pre, last.entity)

SameArchetypeRemoval ==
    \/ /\ last.op = "remove_intersection"
       /\ ~last.panic
       /\ Range(last.ids) \cap ComponentsOf(pre, last.entity) = {}
    \/ /\ last.op = "remove"
       /\ last.ids = <<>>

\* C21: an operation whose destination is the source archetype moves nothing
C21_SameArchetypeShortCircuit ==
    /\ SameArchetypeInsert => NothingMoved
    /\ SameArchetypeRemoval =>
         /\ NothingMoved
         /\ tables = pre.tables
         /\ sparse_sets = pre.sparse_sets
         /\ removed_components = pre.removed_components

\* an intersection removal of a bundle the entity has nothing of, on an
\* entity that is not the last of its archetype
C21_Witness ==
    /\ last.op = "remove_intersection"
    /\ last.ids # <<>>
    /\ SameArchetypeRemoval
    /\ EntitiesGet(pre.entities, last.entity).archetype_row
         < Len(pre.archetypes[EntitiesGet(pre.entities, last.entity).archetype_id].entities)

(***************************************************************************)
(* C22: insert, strict remove and remove_intersection keep every component *)
(* of the entity that is not in the bundle: it is still there afterwards   *)
(* and holds the value it held before, in the column of the table the      *)
(* entity is now in if it is table-backed, in its sparse map if it is      *)
(* sparse-backed.                                                          *)
(***************************************************************************)
\* the stores w hold a cell of the component for the entity, at the row the
\* resident list of its archetype names or in the sparse map
HasStored(w, entity, component_id) ==
    IF IsTable(component_id)
    THEN /\ component_id \in DOMAIN w.tables[TableOf(w, entity)].columns
         /\ TableRowOf(w, entity)
              \in 1..Len(w.tables[TableOf(w, entity)].columns[component_id])
    ELSE entity \in DOMAIN w.sparse_sets[component_id]

KeptComponents == ComponentsOf(pre, last.entity) \ Range(last.ids)

\* C22: the components outside the bundle survive with their values
C22_OtherComponentsKept ==
    /\ last.op \in {"insert", "insert_bundle_by_ids", "remove", "remove_intersection"}
    /\ ~last.panic
    => \A c \in KeptComponents :
         /\ c \in ComponentsOf(World, last.entity)
         /\ HasStored(World, last.entity, c)
         /\ StoredValue(World, last.entity, c) = StoredValue(pre, last.entity, c)

\* a removal moved the entity to another table and a table-backed and a
\* sparse-backed component stayed with it
C22_Witness ==
    /\ last.op \in {"remove", "remove_intersection"}
    /\ TableOf(World, last.entity) # TableOf(pre, last.entity)
    /\ \E c \in KeptComponents : IsTable(c)
    /\ \E c \in ComponentsOf(World, last.entity) : IsSparse(c)

(***************************************************************************)
(* C23: every removed value is disposed of exactly once.  A successful     *)
(* strict remove hands each removed value of the entity to the caller: the *)
(* value returned is the one the entity stored, and the cell it was taken  *)
(* out of is in the row that is then discarded.  remove_intersection and   *)
(* despawn hand nothing out.  After the operation no cell of a removed     *)
(* component of the entity is left in a table or a sparse map.             *)
(***************************************************************************)
\* the components the last removal or despawn took from the entity
RemovedComponents ==
    IF last.op = "despawn" THEN ComponentsOf(pre, last.entity)
    ELSE Range(last.ids) \cap ComponentsOf(pre, last.entity)

\* C23: removed values are handed out or dropped once, none is left behind
C23_DisposedOnce ==
    /\ last.op = "remove" /\ last.some =>
         \A c \in Range(last.ids) :
             /\ last.ret[c] = StoredValue(pre, last.entity, c)
             /\ IsTable(c) =>
                  EntitiesGet(pre.entities, last.entity).table_row
                      = TableRowOf(pre, last.entity)
             /\ CellsOf(last.entity, c) = {}
             /\ ~InSparseMap(last.entity, c)
    /\ last.op \in {"remove_intersection", "despawn"} /\ ~last.panic =>
         /\ last.ret = EmptyMap
         /\ \A c \in RemovedComponents :
              /\ CellsOf(last.entity, c) = {}
              /\ ~InSparseMap(last.entity, c)

(***************************************************************************)
(* C24: archetypes are made when first needed and are never destroyed nor  *)
(* altered, even when no entity is left in them; no two archetypes have    *)
(* the same component set; so every cached remove edge that holds a        *)
(* destination names an archetype that exists and whose component set is   *)
(* the set of the source archetype minus the components of the bundle.     *)
(***************************************************************************)
\* what identifies an archetype: its component lists and its table
Shape(archetype) ==
    [table_components |-> archetype.table_components,
     sparse_set_components |-> archetype.sparse_set_components,
     table_id |-> archetype.table_id]

\* C24: archetypes persist unaltered, are unique, and edges stay valid
C24_ArchetypesPersist ==
    /\ Len(archetypes) >= Len(pre.archetypes)
    /\ \A i \in 1..Len(pre.archetypes) : Shape(archetypes[i]) = Shape(pre.archetypes[i])
    /\ \A i \in 1..Len(archetypes), j \in 1..Len(archetypes) :
         ArchetypeComponents(archetypes[i]) = ArchetypeComponents(archetypes[j]) => i = j
    /\ \A i \in 1..Len(archetypes), b \in BundleIds, intersection \in Modes :
         LET destination == GetRemoveEdge(archetypes[i], b, intersection)
         IN destination > 0 =>
              /\ destination \in 1..Len(archetypes)
              /\ ArchetypeComponents(archetypes[destination])
                   = ArchetypeComponents(archetypes[i]) \ BundleSet(b)

\* a cached edge leads to another archetype that no entity is in any more
C24_Witness ==
    \E i \in 1..Len(archetypes), b \in BundleIds, intersection \in Modes :
        LET destination == GetRemoveEdge(archetypes[i], b, intersection)
        IN /\ destination > 1
           /\ destination # i
           /\ archetypes[destination].entities = <<>>

(***************************************************************************)
(* C25: the table of every archetype has exactly the columns of the        *)
(* table-backed components of the archetype.  A removal that takes only    *)
(* sparse-backed components from the entity leads to an archetype on the   *)
(* same table, and the entity keeps its table row.                         *)
(***************************************************************************)
\* the last removal took components from the entity, all of them sparse-backed
SparseOnlyRemoval ==
    /\ last.op \in {"remove", "remove_intersection"}
    /\ ~last.panic
    /\ last.op = "remove" => last.some
    /\ RemovedComponents # {}
    /\ \A c \in RemovedComponents : IsSparse(c)

\* C25: table columns match the archetype; a sparse-only removal keeps the
\* table and the row
C25_TableReuse ==
    /\ \A i \in 1..Len(archetypes) :
         /\ archetypes[i].table_id \in 1..Len(tables)
         /\ DOMAIN tables[archetypes[i].table_id].columns
              = Range(archetypes[i].table_components)
    /\ SparseOnlyRemoval =>
         /\ EntitiesGet(entities, last.entity).archetype_id
              # EntitiesGet(pre.entities, last.entity).archetype_id
         /\ TableOf(World, last.entity) = TableOf(pre, last.entity)
         /\ TableRowOf(World, last.entity) = TableRowOf(pre, last.entity)
         /\ EntitiesGet(entities, last.entity).table_id = TableOf(pre, last.entity)
         /\ EntitiesGet(entities, last.entity).table_row = TableRowOf(pre, last.entity)
         /\ tables = pre.tables

\* a sparse-only removal from an entity that has a table-backed component
C25_Witness ==
    /\ SparseOnlyRemoval
    /\ \E c \in ComponentsOf(World, last.entity) : IsTable(c)

(***************************************************************************)
(* C26: after despawn the entity is in no archetype's resident list, in no *)
(* table row and in no sparse map, its location record is cleared, and the *)
(* entity that was swapped into its archetype row has that row as its      *)
(* archetype_row in the directory.                                         *)
(***************************************************************************)
\* the entity that Archetype::swap_remove moves into the row of the last
\* despawned entity, NoEntity when it was the last resident
SwappedIntoRow ==
    LET location == EntitiesGet(pre.entities, last.entity)
        residents == pre.archetypes[location.archetype_id].entities
    IN IF location.archetype_row < Len(residents)
       THEN residents[Len(residents)].entity
       ELSE NoEntity

\* C26: a despawned entity is gone from every structure and the entity
\* swapped into its archetype row is recorded at that row
C26_DespawnErases ==
    (last.op = "despawn" /\ ~last.panic) =>
        /\ \A i \in 1..Len(archetypes) : \A j \in 1..Len(archetypes[i].entities) :
             archetypes[i].entities[j].entity # last.entity
        /\ \A t \in 1..Len(tables) : \A r \in 1..Len(tables[t].entities) :
             tables[t].entities[r] # last.entity
        /\ \A c \in SparseComponentIds : last.entity \notin DOMAIN sparse_sets[c]
        /\ EntitiesGet(entities, last.entity) = NoLocation
        /\ entities.meta[last.entity.index].location = NoLocation
        /\ SwappedIntoRow # NoEntity =>
             LET location == EntitiesGet(pre.entities, last.entity)
             IN /\ EntitiesGet(entities, SwappedIntoRow).archetype_id
                     = location.archetype_id
                /\ EntitiesGet(entities, SwappedIntoRow).archetype_row
                     = location.archetype_row
                /\ archetypes[location.archetype_id]
                     .entities[location.archetype_row].entity = SwappedIntoRow

\* a despawn of an entity with a sparse-backed component that was not the
\* last resident of its archetype
C26_Witness ==
    /\ last.op = "despawn"
    /\ ~last.panic
    /\ SwappedIntoRow # NoEntity
    /\ \E c \in ComponentsOf(pre, last.entity) : IsSparse(c)

(***************************************************************************)
(* C27: insert_bundle_by_ids with a component id the registry does not     *)
(* know aborts before anything changes: no bundle is registered, no        *)
(* archetype or table is made, and no location or value changes.           *)
(***************************************************************************)
\* the last operation was insert_bundle_by_ids with an unregistered id
UnknownIdGiven ==
    /\ last.op = "insert_bundle_by_ids"
    /\ \E i \in 1..Len(last.ids) : ~get_info(last.ids[i])

\* C27: an unregistered id makes insert_bundle_by_ids panic with the world
\* as it was
C27_UnknownIdAborts ==
    UnknownIdGiven =>
        /\ last.panic
        /\ bundles = pre.bundles
        /\ Len(archetypes) = Len(pre.archetypes)
        /\ Len(tables) = Len(pre.tables)
        /\ entities = pre.entities
        /\ World = pre

\* the call named a registered component the entity lacks next to the
\* unregistered one, after a dynamic bundle had been registered
C27_Witness ==
    /\ UnknownIdGiven
    /\ last.panic
    /\ bundles # {}
    /\ \E i \in 1..Len(last.ids) :
         /\ get_info(last.ids[i])
         /\ last.ids[i] \notin ComponentsOf(World, last.entity)

(***************************************************************************)
(* C29: a structural mutation of one entity leaves what is observed for    *)
(* every other live entity alone: the same component set, and the same     *)
(* value for each component looked up through the directory location,      *)
(* also for the entities swap-moved into a vacated row.                    *)
(***************************************************************************)
\* the values a lookup of the component through the location can yield
ObservedValues(tbls, sparse, component_id, entity, location) ==
    {cell.value : cell \in GetComponent(tbls, sparse, component_id, entity, location)}

\* the entities other than the mutated one that live before and after
Bystanders ==
    {e \in LiveEntities \ {last.entity} : EntitiesGet(pre.entities, e) # NoLocation}

\* C29: the other entities read the same after a structural mutation
C29_OthersUnchanged ==
    (/\ last.op \in {"insert", "insert_bundle_by_ids", "remove", "remove_intersection",
                     "despawn"}
     /\ ~last.panic) =>
        \A e \in Bystanders :
            /\ ComponentsOf(World, e) = ComponentsOf(pre, e)
            /\ \A c \in ComponentsOf(pre, e) :
                 ObservedValues(tables, sparse_sets, c, e, EntitiesGet(entities, e))
                   = ObservedValues(pre.tables, pre.sparse_sets, c, e,
                                    EntitiesGet(pre.entities, e))

(***************************************************************************)
(* C30: no two live entities have directory locations with the same table  *)
(* and table row, and the table row in the directory location of a live    *)
(* entity is the one its archetype's resident list records for it.         *)
(***************************************************************************)
\* C30: directory table rows are distinct and agree with the resident lists
C30_DirectoryRowsAgree ==
    /\ \A a \in LiveEntities : \A b \in LiveEntities \ {a} :
         <<EntitiesGet(entities, a).table_id, EntitiesGet(entities, a).table_row>>
           # <<EntitiesGet(entities, b).table_id, EntitiesGet(entities, b).table_row>>
    /\ \A e \in LiveEntities :
         EntitiesGet(entities, e).table_row = TableRowOf(World, e)

(***************************************************************************)
(* C31: after an insert, a remove or a remove_intersection through an      *)
(* EntityMut, whether the entity changed archetype or the call returned    *)
(* early, the location cached in the handle is the location the directory  *)
(* holds for the entity of the handle.                                     *)
(***************************************************************************)
\* the last operation was an insert or a removal that returned
ThroughHandle ==
    /\ last.op \in {"insert", "insert_bundle_by_ids", "remove", "remove_intersection"}
    /\ ~last.panic

\* C31: the handle's cached location is the directory's after the operation
C31_HandleLocationCurrent ==
    ThroughHandle =>
        /\ handle.entity = last.entity
        /\ handle.location # NoLocation
        /\ handle.location = EntitiesGet(entities, last.entity)

\* a strict remove moved an entity whose directory table row was stale, out
\* of an archetype in which another entity took its row
C31_Witness ==
    /\ last.op = "remove"
    /\ last.some
    /\ EntitiesGet(entities, last.entity) # EntitiesGet(pre.entities, last.entity)
    /\ EntitiesGet(pre.entities, last.entity).table_row # TableRowOf(pre, last.entity)
    /\ handle.location = EntitiesGet(entities, last.entity)

(***************************************************************************)
(* C32: for a strictly ascending source and an ascending remove, whether   *)
(* or not the elements of remove occur in source, sorted_remove leaves in  *)
(* source exactly the elements of source that are not in remove, in their  *)
(* original order.                                                         *)
(***************************************************************************)
\* C32: what sorted_remove leaves is the ascending list of the elements of
\* source that remove lacks
C32_SortedRemoveExact ==
    last.op = "sorted_remove" =>
        last.ret = SortedSeq(Range(last.ids) \ Range(last.values))

\* a call that took an element out and kept one, with a remove list that
\* repeats an element and names one source lacks
C32_Witness ==
    /\ last.op = "sorted_remove"
    /\ last.ret # <<>>
    /\ Len(last.ret) < Len(last.ids)
    /\ Range(last.values) \ Range(last.ids) # {}
    /\ \E i \in 1..(Len(last.values) - 1) : last.values[i] = last.values[i + 1]

====
